---- MODULE Spec2Model ----
(***************************************************************************)
(* Model of the PM Updater action: ticket extraction (utils/parser),       *)
(* the Jira and Linear tracker adapters, the tracker factory and the       *)
(* run() pipeline of src/index.ts.                                         *)
(*                                                                         *)
(* Text that the code inspects character by character (commit messages,    *)
(* ticket identifiers, project/team keys) is a sequence of one-character   *)
(* strings; text the code only passes along or tests for emptiness         *)
(* (emails, Slack ids, tokens, status names) is a TLA+ string, with "" the *)
(* empty JavaScript string and Null standing for null/undefined.           *)
(***************************************************************************)
EXTENDS Naturals, Integers, Sequences, FiniteSets, TLC

\* ------------------------------------------------------------------------
\* Bounds of the model
\* ------------------------------------------------------------------------

\* Largest number of commits in the push event.
MaxCommits == 1

\* ------------------------------------------------------------------------
\* Basic values
\* ------------------------------------------------------------------------

\* null / undefined of a string-valued field.
Null == "null"

\* JavaScript truthiness of an optional opaque string.
Truthy(s) == s # Null /\ s # ""

\* JavaScript truthiness of a character-sequence string ("" is falsy; an
\* absent key is loaded as undefined, which is falsy as well).
TruthyStr(s) == s # <<>>

Upper == {"A", "B", "C", "D", "E", "F", "G", "H", "I", "J", "K", "L", "M",
          "N", "O", "P", "Q", "R", "S", "T", "U", "V", "W", "X", "Y", "Z"}

Lower == {"a", "b", "c", "d", "e", "f", "g", "h", "i", "j", "k", "l", "m",
          "n", "o", "p", "q", "r", "s", "t", "u", "v", "w", "x", "y", "z"}

Digit == {"0", "1", "2", "3", "4", "5", "6", "7", "8", "9"}

\* \w of the regular expression.
WordChar == Upper \cup Lower \cup Digit \cup {"_"}

Min(a, b) == IF a <= b THEN a ELSE b

\* ------------------------------------------------------------------------
\* utils/parser
\* ------------------------------------------------------------------------

\* Is the character at position i (1-based) a word character; positions
\* outside the text are not.
IsWordAt(msg, i) == i >= 1 /\ i <= Len(msg) /\ msg[i] \in WordChar

\* \b : a word boundary lies before position i.
BoundaryBefore(msg, i) == IsWordAt(msg, i - 1) # IsWordAt(msg, i)

\* Number of consecutive characters of class cls starting at position i.
RECURSIVE RunLength(_, _, _)
RunLength(msg, i, cls) ==
    IF i <= Len(msg) /\ msg[i] \in cls
    THEN 1 + RunLength(msg, i + 1, cls)
    ELSE 0

\* Variant of MatchEnds for the pattern without the word boundaries.
MatchEnds_Unanchored(msg, i) ==
    LET letters == Min(RunLength(msg, i, Upper), 10)
        hyphenAfter(k) == i + k <= Len(msg) /\ msg[i + k] = "-"
    IN  UNION { { i + k + m : m \in 1..RunLength(msg, i + k + 1, Digit) } :
                k \in { l \in 2..letters : hyphenAfter(l) } }

\* The ends (last position) of all ways /\b[A-Z]{2,10}-\d+\b/ can match
\* starting at position i.
MatchEnds(msg, i) ==
    IF ~BoundaryBefore(msg, i) THEN {}
    ELSE
      LET letters == Min(RunLength(msg, i, Upper), 10)
          hyphenAfter(k) == i + k <= Len(msg) /\ msg[i + k] = "-"
      IN  UNION { { i + k + m :
                      m \in { d \in 1..RunLength(msg, i + k + 1, Digit) :
                                BoundaryBefore(msg, i + k + d + 1) } } :
                  k \in { l \in 2..letters : hyphenAfter(l) } }

Max(S) == CHOOSE x \in S : \A y \in S : y <= x

\* ISSUE_ID_PATTERN applied globally (message.match with the g flag): the
\* matches from left to right, each greedy, scanning on after a match.
RECURSIVE MatchAll(_, _)
MatchAll(msg, i) ==
    IF i > Len(msg) THEN <<>>
    ELSE
      LET ends == MatchEnds(msg, i)
      IN  IF ends # {}
          THEN <<SubSeq(msg, i, Max(ends))>> \o MatchAll(msg, Max(ends) + 1)
          ELSE MatchAll(msg, i + 1)

\* [...new Set(xs)] : first occurrences, in order.
RECURSIVE Dedup(_)
Dedup(xs) ==
    IF xs = <<>> THEN <<>>
    ELSE LET init == Dedup(SubSeq(xs, 1, Len(xs) - 1))
             last == xs[Len(xs)]
         IN  IF \E j \in 1..Len(init) : init[j] = last
             THEN init
             ELSE Append(init, last)

\* Variant of extractTicketIds that returns the matches as they are.
extractTicketIds_NoDedup(message) == MatchAll(message, 1)

extractTicketIds(message) == Dedup(MatchAll(message, 1))

\* id.startsWith(prefix)
StartsWith(id, prefix) ==
    Len(id) >= Len(prefix) /\ SubSeq(id, 1, Len(prefix)) = prefix

\* Variant of filteredTickets that forgets the project key.
filteredTickets_Unscoped(message, projectKey) == extractTicketIds(message)

\* Variant of filteredTickets that compares with the key alone.
filteredTickets_NoHyphen(message, projectKey) ==
    LET ticketIds == extractTicketIds(message)
        keep(id) == StartsWith(id, projectKey)
    IN  IF TruthyStr(projectKey) THEN SelectSeq(ticketIds, keep) ELSE ticketIds

\* The tickets parseCommits keeps for one commit message.
filteredTickets(message, projectKey) ==
    LET ticketIds == extractTicketIds(message)
        keep(id) == StartsWith(id, projectKey \o <<"-">>)
    IN  IF TruthyStr(projectKey) THEN SelectSeq(ticketIds, keep) ELSE ticketIds

\* Variant of parseCommits with an entry for every commit.
parseCommits_KeepsEmpty(cs, projectKey) ==
    [i \in 1..Len(cs) |->
        [sha |-> cs[i].id, ticketIds |-> filteredTickets(cs[i].message, projectKey)]]

\* parseCommits: one ParsedCommit (sha, ticketIds) per commit that has a
\* ticket left, in the order of the commits.
RECURSIVE parseCommits(_, _)
parseCommits(cs, projectKey) ==
    IF cs = <<>> THEN <<>>
    ELSE LET init == parseCommits(SubSeq(cs, 1, Len(cs) - 1), projectKey)
             c    == cs[Len(cs)]
             ft   == filteredTickets(c.message, projectKey)
         IN  IF Len(ft) > 0
             THEN Append(init, [sha |-> c.id, ticketIds |-> ft])
             ELSE init

\* parsedCommits.flatMap(commit => commit.ticketIds)
RECURSIVE FlatTickets(_)
FlatTickets(pcs) ==
    IF pcs = <<>> THEN <<>>
    ELSE pcs[1].ticketIds \o FlatTickets(Tail(pcs))

\* Variant of getAllTicketIds that returns the merged list as it is.
getAllTicketIds_NoDedup(pcs) == FlatTickets(pcs)

getAllTicketIds(pcs) == Dedup(FlatTickets(pcs))

\* ------------------------------------------------------------------------
\* Values the runs are drawn from
\* ------------------------------------------------------------------------

KeyAB == <<"A", "B">>
KeyCD == <<"C", "D">>

AB1 == <<"A", "B", "-", "1">>
AB2 == <<"A", "B", "-", "2">>
CD2 == <<"C", "D", "-", "2">>

\* Commit messages of the push event:
\*   "AB-1 CD-2", "[AB-1] (AB-2)" and "fix ab-1" (no identifier).
MsgTwoProjects == AB1 \o <<" ">> \o CD2
MsgBracketed   == <<"[">> \o AB1 \o <<"]", " ", "(">> \o AB2 \o <<")">>
MsgNoTicket    == <<"f", "i", "x", " ", "a", "b", "-", "1">>

CommitMessages == {MsgTwoProjects, MsgBracketed, MsgNoTicket}

\* context.payload.commits : commit i has id i.
CommitLists ==
    UNION { { [i \in 1..n |-> [id |-> i, message |-> ms[i]]] :
                ms \in [1..n -> CommitMessages] } : n \in 0..MaxCommits }

\* JSON values: the type and, for a string or a number, its text, for an
\* object its entries <<[key, value], ...>> in the order of its properties.
JsonString(text) == [type |-> "string", value |-> text]
JsonNumber(text) == [type |-> "number", value |-> text]
JsonObject(entries) == [type |-> "object", value |-> entries]
JsonArray == [type |-> "array", value |-> <<>>]
JsonNull == [type |-> "null", value |-> <<>>]

Entry(key, value) == [key |-> key, value |-> value]

\* The property name "__proto__".
ProtoKey == <<"_", "_", "p", "r", "o", "t", "o", "_", "_">>

\* The objects of strings pm_mapping_json can hold, from grouping key to
\* Slack destination; an entry may be the empty string, and the text may
\* give the object an entry of its own under "__proto__".
PmMappings ==
    { <<>>,
      <<Entry(KeyAB, JsonString("U_MAP_AB"))>>,
      <<Entry(KeyAB, JsonString(""))>>,
      <<Entry(KeyCD, JsonString("U_MAP_CD"))>>,
      <<Entry(ProtoKey, JsonString("U_PROTO"))>>,
      <<Entry(ProtoKey, JsonString("U_PROTO")),
        Entry(KeyAB, JsonString("U_MAP_AB"))>> }

\* The text '{}' that loadConfig parses when pm_mapping_json is not given.
EmptyObjectText ==
    [given |-> TRUE, json |-> TRUE, value |-> JsonObject(<<>>), error |-> ""]

\* pm_mapping_json: not given, text that JSON.parse turns into a value (an
\* object of strings, an object with numbers, an array, null), or text
\* that JSON.parse rejects with the SyntaxError message of the engine.
PmMappingInputs ==
    { [given |-> TRUE, json |-> TRUE, value |-> JsonObject(m), error |-> ""] :
        m \in PmMappings }
      \cup { [given |-> FALSE, json |-> TRUE, value |-> JsonNull, error |-> ""],
             [given |-> TRUE, json |-> TRUE, error |-> "",
              value |-> JsonObject(<<Entry(KeyAB, JsonNumber("1"))>>)],
             [given |-> TRUE, json |-> TRUE, error |-> "",
              value |-> JsonObject(<<Entry(KeyCD, JsonNumber("2")),
                                     Entry(KeyAB, JsonNumber("1"))>>)],
             [given |-> TRUE, json |-> TRUE, value |-> JsonArray, error |-> ""],
             [given |-> TRUE, json |-> TRUE, value |-> JsonNull, error |-> ""],
             [given |-> TRUE, json |-> FALSE, value |-> JsonNull,
              error |-> "Unexpected token 'o', \"not json\" is not valid JSON"] }

\* URLs and email addresses are sequences of their parts; <<>> is "".
UrlJira      == <<"https:", "/", "/", "jira.example">>
UrlJiraSlash == UrlJira \o <<"/">>
UrlFtp       == <<"ftp:", "/", "/", "files.example">>
NotAUrl      == <<"not a url">>

EmailBot   == <<"bot", "@", "corp.example">>
EmailNoTld == <<"bot", "@", "corp">>
NotAnEmail == <<"nobody">>

\* An input the schema checks with a validator of a library: its text, and
\* whether the validator accepts the text. The URL parser of the platform
\* (new URL(text), behind z.string().url()) and the pattern of
\* z.string().email() are not code of the repository; what they say of a
\* text comes with the text.
Checked(text, valid) == [text |-> text, valid |-> valid]

\* The input is not given ("" is neither a URL nor an email address).
NotGiven == Checked(<<>>, FALSE)

JiraBaseUrlInputs ==
    { NotGiven, Checked(UrlJira, TRUE), Checked(UrlJiraSlash, TRUE),
      Checked(UrlFtp, TRUE), Checked(NotAUrl, FALSE) }

JiraEmailInputs ==
    { NotGiven, Checked(EmailBot, TRUE), Checked(EmailNoTld, FALSE),
      Checked(NotAnEmail, FALSE) }

\* An input without grouping key, mapping and filters.
PlainInput(in) ==
    /\ in.jira_project_key = <<>>
    /\ in.linear_team_key = <<>>
    /\ ~in.pm_mapping_json.given
    /\ in.only_active_sprint = "false"
    /\ in.ticket_status_filter = <<>>

\* The action inputs (core.getInput): "" and <<>> are an input that is not
\* given. Credentials of the tracker that is not selected are left out; an
\* environment and a base URL other than UrlJira are given with plain
\* inputs only.
Inputs ==
    { in \in
        [ issue_tracker         : {"", "jira", "linear", "github"},
          jira_base_url         : JiraBaseUrlInputs,
          jira_email            : JiraEmailInputs,
          jira_api_token        : {"", "jira-token"},
          jira_project_key      : {<<>>, KeyAB},
          linear_api_key        : {"", "lin_api_key"},
          linear_team_key       : {<<>>, KeyCD},
          slack_bot_token       : {"", "xoxb-token"},
          slack_channel_or_user : {"C_DEFAULT"},
          environment           : {"", "production"},
          pm_mapping_json       : PmMappingInputs,
          only_active_sprint    : {"", "false"},
          ticket_status_filter  : {<<>>, <<"Done">>} ] :
        /\ in.issue_tracker \in {"", "jira", "github"} =>
              in.linear_api_key = ""
        /\ in.issue_tracker = "linear" =>
              /\ in.jira_base_url = NotGiven
              /\ in.jira_email = NotGiven
              /\ in.jira_api_token = ""
        /\ (in.environment # "" \/ in.jira_base_url.text \in {UrlJiraSlash, UrlFtp}) =>
              PlainInput(in) }

\* core.getInput(name) || undefined
OrUndefined(s) == IF s = "" THEN Null ELSE s

\* ------------------------------------------------------------------------
\* Configuration (index.ts loadConfig, types ConfigSchema)
\* ------------------------------------------------------------------------

\* Error messages are the sequence of the texts they are put together of;
\* <<>> is no error.
NoError == <<>>

\* z.string().url(): new URL(text) accepts the text.
IsUrl(u) == u.valid

\* z.string().email(): the text matches the pattern of the library.
IsEmail(e) == e.valid

\* core.getInput('issue_tracker') || 'jira'
issueTrackerOf(in) == IF in.issue_tracker = "" THEN "jira" ELSE in.issue_tracker

\* core.getInput('pm_mapping_json') || '{}'
pmMappingInput(in) ==
    IF in.pm_mapping_json.given THEN in.pm_mapping_json ELSE EmptyObjectText

\* The issues z.record(z.string()) reports for the entries of the parsed
\* pm_mapping_json, in the order of the properties of the object.
RECURSIVE pmMappingEntryIssues(_)
pmMappingEntryIssues(entries) ==
    IF entries = <<>> THEN <<>>
    ELSE (IF Head(entries).value.type # "string"
          THEN <<"invalid_type", "pmMapping">> \o Head(entries).key
                 \o <<"Expected string, received ", Head(entries).value.type>>
          ELSE <<>>)
         \o pmMappingEntryIssues(Tail(entries))

pmMappingIssues(json) ==
    IF json.type # "object"
    THEN <<"invalid_type", "pmMapping", "Expected object, received ", json.type>>
    ELSE pmMappingEntryIssues(json.value)

\* The record z.record(z.string()) builds of a parsed object of strings:
\* its entries in their order, but for an entry of its own under
\* "__proto__", which the record is built without.
recordOfStrings(entries) ==
    LET notProto(entry) == entry.key # ProtoKey
        kept == SelectSeq(entries, notProto)
    IN  [i \in 1..Len(kept) |-> Entry(kept[i].key, kept[i].value.value)]

\* The issues ConfigSchema.parse reports, in the order of the schema.
zodIssues(in) ==
    (IF issueTrackerOf(in) \notin {"jira", "linear"}
     THEN <<"invalid_enum_value", "issueTracker", issueTrackerOf(in)>>
     ELSE <<>>)
    \o (IF in.jira_base_url.text # <<>> /\ ~IsUrl(in.jira_base_url)
        THEN <<"invalid_string", "jiraBaseUrl", "Invalid url">>
        ELSE <<>>)
    \o (IF in.jira_email.text # <<>> /\ ~IsEmail(in.jira_email)
        THEN <<"invalid_string", "jiraEmail", "Invalid email">>
        ELSE <<>>)
    \o pmMappingIssues(pmMappingInput(in).value)

\* The message of the ConfigurationError loadConfig throws, or NoError: the
\* message of the error caught (JSON.parse is run first, then the inputs are
\* read in the order of the object literal, then ConfigSchema.parse checks
\* the object) behind "Invalid configuration: ".
loadConfigError(in) ==
    IF ~pmMappingInput(in).json
    THEN <<"Invalid configuration: ", pmMappingInput(in).error>>
    ELSE IF in.slack_bot_token = ""
    THEN <<"Invalid configuration: ", "Input required and not supplied: slack_bot_token">>
    ELSE IF in.slack_channel_or_user = ""
    THEN <<"Invalid configuration: ",
           "Input required and not supplied: slack_channel_or_user">>
    ELSE IF zodIssues(in) # <<>>
    THEN <<"Invalid configuration: ">> \o zodIssues(in)
    ELSE NoError

\* loadConfig throws.
loadConfigThrows(in) == loadConfigError(in) # NoError

\* The Config loadConfig returns.
loadConfig(in) ==
    [ issueTracker       |-> issueTrackerOf(in),
      jiraBaseUrl        |-> in.jira_base_url.text,
      jiraEmail          |-> in.jira_email.text,
      jiraApiToken       |-> OrUndefined(in.jira_api_token),
      jiraProjectKey     |-> in.jira_project_key,
      linearApiKey       |-> OrUndefined(in.linear_api_key),
      linearTeamKey      |-> in.linear_team_key,
      slackBotToken      |-> in.slack_bot_token,
      slackChannelOrUser |-> in.slack_channel_or_user,
      environment        |-> IF in.environment = "" THEN "staging"
                             ELSE in.environment,
      pmMapping          |-> recordOfStrings(pmMappingInput(in).value.value),
      onlyActiveSprint   |-> in.only_active_sprint # "false",
      ticketStatusFilter |-> in.ticket_status_filter ]

NoConfig == [ loaded |-> FALSE ]

\* ------------------------------------------------------------------------
\* services/tracker-factory
\* ------------------------------------------------------------------------

getProjectKey(cfg) ==
    IF cfg.issueTracker = "jira" THEN cfg.jiraProjectKey
    ELSE IF cfg.issueTracker = "linear" THEN cfg.linearTeamKey
    ELSE <<>>

\* The message of the ConfigurationError createJiraService throws, or
\* NoError.
createJiraServiceError(cfg) ==
    IF ~TruthyStr(cfg.jiraBaseUrl)
    THEN <<"jira_base_url is required when issue_tracker is \"jira\"">>
    ELSE IF ~TruthyStr(cfg.jiraEmail)
    THEN <<"jira_email is required when issue_tracker is \"jira\"">>
    ELSE IF ~Truthy(cfg.jiraApiToken)
    THEN <<"jira_api_token is required when issue_tracker is \"jira\"">>
    ELSE NoError

createLinearServiceError(cfg) ==
    IF ~Truthy(cfg.linearApiKey)
    THEN <<"linear_api_key is required when issue_tracker is \"linear\"">>
    ELSE NoError

\* The message of the ConfigurationError createIssueTracker throws, or
\* NoError when it returns an adapter.
createIssueTrackerError(cfg) ==
    IF cfg.issueTracker = "jira" THEN createJiraServiceError(cfg)
    ELSE IF cfg.issueTracker = "linear" THEN createLinearServiceError(cfg)
    ELSE <<"Unknown issue tracker: ", cfg.issueTracker>>

\* baseUrl.replace(/\/$/, ''): one slash at the end is removed.
RemoveTrailingSlash(u) ==
    IF Len(u) > 0 /\ u[Len(u)] = "/" THEN SubSeq(u, 1, Len(u) - 1) ELSE u

\* new JiraService(baseUrl, email, apiToken)
JiraService(baseUrl) ==
    [ kind |-> "jira", baseUrl |-> RemoveTrailingSlash(baseUrl), teamKey |-> <<>> ]

\* new LinearService(apiKey, teamKey)
LinearService(teamKey) ==
    [ kind |-> "linear", baseUrl |-> <<>>, teamKey |-> teamKey ]

\* The adapter createIssueTracker constructs when it does not throw.
createIssueTracker(cfg) ==
    IF cfg.issueTracker = "jira" THEN JiraService(cfg.jiraBaseUrl)
    ELSE LinearService(cfg.linearTeamKey)

\* ------------------------------------------------------------------------
\* What the backends answer
\* ------------------------------------------------------------------------

\* Largest timestamp of the clock and of the cycles.
MaxTime == 3

Times == 0..MaxTime

SprintOf(st) == <<[name |-> "Sprint 7", state |-> st]>>

\* The fields of the Jira issues the backend holds (status name, sprint,
\* email of customfield_pm and of the reporter; Null: no such field).
JiraShapes ==
    { [status |-> "In Progress", sprint |-> SprintOf("active"),
       customfield_pm |-> "pm@corp.example", reporter |-> "rep@corp.example"],
      [status |-> "Done",        sprint |-> SprintOf("active"),
       customfield_pm |-> Null,              reporter |-> "rep@corp.example"],
      [status |-> "Done",        sprint |-> SprintOf("active"),
       customfield_pm |-> Null,              reporter |-> Null],
      [status |-> "In Progress", sprint |-> SprintOf("future"),
       customfield_pm |-> "pm@corp.example", reporter |-> Null],
      [status |-> "Done",        sprint |-> SprintOf("closed"),
       customfield_pm |-> Null,              reporter |-> "rep@corp.example"],
      [status |-> "Done",        sprint |-> <<>>,
       customfield_pm |-> "pm@corp.example", reporter |-> "rep@corp.example"] }

JiraIssueOf(id, shape) ==
    [ key |-> id, status |-> shape.status, sprint |-> shape.sprint,
      customfield_pm |-> shape.customfield_pm, reporter |-> shape.reporter ]

\* The cycle of a Linear issue: startsAt, endsAt and an optional completedAt.
CycleOf(s, e, c) == <<[name |-> "Cycle 3", startsAt |-> s, endsAt |-> e, completedAt |-> c]>>

\* The fields of the Linear issues the backend holds.
LinearShapes ==
    { [status |-> "In Progress", cycle |-> CycleOf(1, 2, <<>>),  team |-> KeyAB],
      [status |-> "Done",        cycle |-> CycleOf(1, 2, <<>>),  team |-> KeyCD],
      [status |-> "In Progress", cycle |-> CycleOf(1, 2, <<>>),  team |-> KeyCD],
      [status |-> "Done",        cycle |-> <<>>,                 team |-> KeyAB],
      [status |-> "In Progress", cycle |-> CycleOf(1, 2, <<2>>), team |-> KeyCD] }

\* The url of an issue as the Linear backend gives it.
LinearBackendUrl(team) ==
    <<<<"https:", "/", "/", "linear.app">>, "/acme/issue/", team>>

LinearIssueOf(id, shape) ==
    [ identifier |-> id, status |-> shape.status, cycle |-> shape.cycle,
      team |-> shape.team, url |-> LinearBackendUrl(shape.team) ]

NoIssue == [ none |-> TRUE ]

\* What one GraphQL request of LinearService.getIssue can answer: the
\* issue, data.issue = null, an errors array, or a rejected request.
LinearAnswers(id) ==
    { [kind |-> "found", issue |-> LinearIssueOf(id, sh)] : sh \in LinearShapes }
    \cup { [kind |-> k, issue |-> NoIssue] : k \in {"null", "errors", "transport"} }

\* The issue lists a Jira search can return for the requested keys: any of
\* them may be missing.
RECURSIVE JiraIssueLists(_)
JiraIssueLists(ids) ==
    IF ids = <<>> THEN {<<>>}
    ELSE LET rest == JiraIssueLists(Tail(ids))
         IN  rest \cup { <<JiraIssueOf(Head(ids), sh)>> \o r :
                            sh \in JiraShapes, r \in rest }

\* What the search request of JiraService.getJiraIssues can answer: a
\* result page, an HTTP error status or timeout (the interceptor throws a
\* JiraApiError), or a body without an issues array.
JiraAnswers(ids) ==
    { [kind |-> "ok", issues |-> l] : l \in JiraIssueLists(ids) }
    \cup { [kind |-> k, issues |-> <<>>] : k \in {"http_error", "timeout", "malformed"} }

\* users.lookupByEmail
SlackUserOf(email) == IF email = "pm@corp.example" THEN "U_PM" ELSE "U_REP"

LookupAnswers == {"found", "no_user", "no_id", "error"}

\* chat.postMessage
SendAnswers == {"ok", "ok_no_ts", "not_ok", "platform_error", "other_error"}

\* ------------------------------------------------------------------------
\* services/jira
\* ------------------------------------------------------------------------

\* Variant of getJiraPmEmail that asks the reporter first.
getJiraPmEmail_ReporterFirst(jiraIssue) ==
    IF Truthy(jiraIssue.reporter) THEN jiraIssue.reporter
    ELSE IF Truthy(jiraIssue.customfield_pm) THEN jiraIssue.customfield_pm
    ELSE Null

getJiraPmEmail(jiraIssue) ==
    IF Truthy(jiraIssue.customfield_pm) THEN jiraIssue.customfield_pm
    ELSE IF Truthy(jiraIssue.reporter) THEN jiraIssue.reporter
    ELSE Null

JiraGetIssueUrl(baseUrl, ticketId) == <<baseUrl, "/browse/", ticketId>>

\* Variant of JiraConvertToGenericIssue that gives the sprint as the cycle
\* too.
JiraConvertToGenericIssue_SprintAsCycle(svc, jiraIssue) ==
    [ key     |-> jiraIssue.key,
      status  |-> jiraIssue.status,
      sprint  |-> IF jiraIssue.sprint # <<>>
                  THEN <<[name  |-> jiraIssue.sprint[1].name,
                          state |-> jiraIssue.sprint[1].state]>>
                  ELSE <<>>,
      cycle   |-> IF jiraIssue.sprint # <<>>
                  THEN <<[name  |-> jiraIssue.sprint[1].name,
                          state |-> jiraIssue.sprint[1].state]>>
                  ELSE <<>>,
      pmEmail |-> getJiraPmEmail(jiraIssue),
      url     |-> JiraGetIssueUrl(svc.baseUrl, jiraIssue.key) ]

JiraConvertToGenericIssue(svc, jiraIssue) ==
    [ key     |-> jiraIssue.key,
      status  |-> jiraIssue.status,
      sprint  |-> IF jiraIssue.sprint # <<>>
                  THEN <<[name  |-> jiraIssue.sprint[1].name,
                          state |-> jiraIssue.sprint[1].state]>>
                  ELSE <<>>,
      cycle   |-> <<>>,
      pmEmail |-> getJiraPmEmail(jiraIssue),
      url     |-> JiraGetIssueUrl(svc.baseUrl, jiraIssue.key) ]

\* Variant of JiraGetIssuesResult without the catch: a failed request leaves
\* getIssues as an error.
JiraGetIssuesResult_Throws(svc, answer) ==
    IF answer.kind = "ok"
    THEN [ threw  |-> FALSE,
           issues |-> [i \in 1..Len(answer.issues) |->
                          JiraConvertToGenericIssue(svc, answer.issues[i])] ]
    ELSE [ threw |-> TRUE, issues |-> <<>> ]

\* Variant of JiraGetIssuesResult that converts outside the try block: a body
\* without an issues array leaves getIssues as a TypeError.
JiraGetIssuesResult_MalformedThrows(svc, answer) ==
    IF answer.kind = "ok"
    THEN [ threw  |-> FALSE,
           issues |-> [i \in 1..Len(answer.issues) |->
                          JiraConvertToGenericIssue(svc, answer.issues[i])] ]
    ELSE [ threw |-> answer.kind = "malformed", issues |-> <<>> ]

\* JiraService.getIssues after the search request was answered: the value
\* it returns, or threw = TRUE when an error leaves it.
JiraGetIssuesResult(svc, answer) ==
    IF answer.kind = "ok"
    THEN [ threw  |-> FALSE,
           issues |-> [i \in 1..Len(answer.issues) |->
                          JiraConvertToGenericIssue(svc, answer.issues[i])] ]
    ELSE [ threw |-> FALSE, issues |-> <<>> ]

\* Variant of JiraIsInActiveSprint that takes every sprint that is not closed.
JiraIsInActiveSprint_NotClosed(issue) ==
    IF issue.sprint = <<>> THEN FALSE
    ELSE issue.sprint[1].state # "closed"

JiraIsInActiveSprint(issue) ==
    IF issue.sprint = <<>> THEN FALSE
    ELSE issue.sprint[1].state = "active"

\* ------------------------------------------------------------------------
\* services/linear
\* ------------------------------------------------------------------------

\* Variant of getCycleState whose cycle is over at endsAt.
getCycleState_EndExclusive(cycle, now) ==
    IF cycle.completedAt # <<>> THEN "completed"
    ELSE IF now < cycle.startsAt THEN "unstarted"
    ELSE IF now >= cycle.startsAt /\ now < cycle.endsAt THEN "started"
    ELSE "completed"

getCycleState(cycle, now) ==
    IF cycle.completedAt # <<>> THEN "completed"
    ELSE IF now < cycle.startsAt THEN "unstarted"
    ELSE IF now >= cycle.startsAt /\ now <= cycle.endsAt THEN "started"
    ELSE "completed"

\* LinearService.getIssueUrl: the URL put together of the identifier
\* (convertToGenericIssue does not use it, it copies the url of the backend).
LinearGetIssueUrl(issueId) ==
    <<<<"https:", "/", "/", "linear.app">>, "/issue/", issueId>>

\* Variant of LinearConvertToGenericIssue that takes an owner email from
\* the backend.
LinearConvertToGenericIssue_WithOwner(linearIssue, now) ==
    [ key     |-> linearIssue.identifier,
      status  |-> linearIssue.status,
      sprint  |-> <<>>,
      cycle   |-> IF linearIssue.cycle # <<>>
                  THEN <<[name  |-> linearIssue.cycle[1].name,
                          state |-> getCycleState(linearIssue.cycle[1], now)]>>
                  ELSE <<>>,
      pmEmail |-> "pm@corp.example",
      url     |-> linearIssue.url ]

LinearConvertToGenericIssue(linearIssue, now) ==
    [ key     |-> linearIssue.identifier,
      status  |-> linearIssue.status,
      sprint  |-> <<>>,
      cycle   |-> IF linearIssue.cycle # <<>>
                  THEN <<[name  |-> linearIssue.cycle[1].name,
                          state |-> getCycleState(linearIssue.cycle[1], now)]>>
                  ELSE <<>>,
      pmEmail |-> Null,
      url     |-> linearIssue.url ]

\* Variant of LinearGetIssueResult without the team check.
LinearGetIssueResult_NoTeamCheck(svc, answer, now) ==
    IF answer.kind \in {"transport", "errors", "null"}
    THEN [ threw |-> FALSE, issue |-> <<>> ]
    ELSE [ threw |-> FALSE,
           issue |-> <<LinearConvertToGenericIssue(answer.issue, now)>> ]

\* LinearService.getIssue after the request was answered: <<issue>> or <<>>
\* for null, or threw = TRUE when an error leaves it.
LinearGetIssueResult(svc, answer, now) ==
    IF answer.kind = "transport" THEN [ threw |-> FALSE, issue |-> <<>> ]
    ELSE IF answer.kind = "errors" THEN [ threw |-> FALSE, issue |-> <<>> ]
    ELSE IF answer.kind = "null" THEN [ threw |-> FALSE, issue |-> <<>> ]
    ELSE IF TruthyStr(svc.teamKey) /\ answer.issue.team # svc.teamKey
    THEN [ threw |-> FALSE, issue |-> <<>> ]
    ELSE [ threw |-> FALSE,
           issue |-> <<LinearConvertToGenericIssue(answer.issue, now)>> ]

LinearIsInActiveSprint(issue) ==
    IF issue.cycle = <<>> THEN FALSE
    ELSE issue.cycle[1].state = "started"

\* ------------------------------------------------------------------------
\* The IssueTrackerService interface, dispatched on the adapter
\* ------------------------------------------------------------------------

isInActiveSprint(svc, issue) ==
    IF svc.kind = "jira" THEN JiraIsInActiveSprint(issue)
    ELSE LinearIsInActiveSprint(issue)

\* toLowerCase of a status name.
LowerCase(status) ==
    IF status = "Done" THEN "done"
    ELSE IF status = "In Progress" THEN "in progress"
    ELSE IF status = "Closed" THEN "closed"
    ELSE status

\* Variant of filterByStatus that compares without regard to case.
filterByStatus_IgnoreCase(list, allowedStatuses) ==
    IF allowedStatuses = <<>> THEN list
    ELSE LET allowed(issue) ==
                 \E j \in 1..Len(allowedStatuses) :
                     LowerCase(allowedStatuses[j]) = LowerCase(issue.status)
         IN  SelectSeq(list, allowed)

\* filterByStatus is the same code in both adapters.
filterByStatus(list, allowedStatuses) ==
    IF allowedStatuses = <<>> THEN list
    ELSE LET allowed(issue) ==
                 \E j \in 1..Len(allowedStatuses) : allowedStatuses[j] = issue.status
         IN  SelectSeq(list, allowed)

getPmEmail(svc, issue) == issue.pmEmail

\* ------------------------------------------------------------------------
\* index.ts: pure parts of run and resolveSlackTarget
\* ------------------------------------------------------------------------

\* Object.keys(object)
ObjectKeys(entries) == [i \in 1..Len(entries) |-> entries[i].key]

HasOwnProperty(entries, key) == \E i \in 1..Len(entries) : entries[i].key = key

\* The names every object inherits from Object.prototype.
ObjectPrototypeKeys ==
    { <<"c", "o", "n", "s", "t", "r", "u", "c", "t", "o", "r">>,
      <<"t", "o", "S", "t", "r", "i", "n", "g">>,
      <<"t", "o", "L", "o", "c", "a", "l", "e", "S", "t", "r", "i", "n", "g">>,
      <<"v", "a", "l", "u", "e", "O", "f">>,
      <<"h", "a", "s", "O", "w", "n", "P", "r", "o", "p", "e", "r", "t", "y">>,
      <<"i", "s", "P", "r", "o", "t", "o", "t", "y", "p", "e", "O", "f">>,
      <<"p", "r", "o", "p", "e", "r", "t", "y", "I", "s",
        "E", "n", "u", "m", "e", "r", "a", "b", "l", "e">>,
      ProtoKey,
      <<"_", "_", "d", "e", "f", "i", "n", "e", "G", "e", "t", "t", "e", "r", "_", "_">>,
      <<"_", "_", "d", "e", "f", "i", "n", "e", "S", "e", "t", "t", "e", "r", "_", "_">>,
      <<"_", "_", "l", "o", "o", "k", "u", "p", "G", "e", "t", "t", "e", "r", "_", "_">>,
      <<"_", "_", "l", "o", "o", "k", "u", "p", "S", "e", "t", "t", "e", "r", "_", "_">> }

\* The value of a property inherited from Object.prototype: a function or
\* the prototype itself, truthy and not a string.
InheritedProperty == "[Object.prototype property]"

\* object[key]: the entry of the object, else what Object.prototype holds
\* under that name, else undefined.
GetProperty(entries, key) ==
    IF HasOwnProperty(entries, key)
    THEN entries[CHOOSE i \in 1..Len(entries) : entries[i].key = key].value
    ELSE IF key \in ObjectPrototypeKeys THEN InheritedProperty
    ELSE Null

\* config.pmMapping[projectKey] when the mapping branch is entered and the
\* entry is used, Null otherwise.
projectMapping(cfg) ==
    LET projectKey == getProjectKey(cfg)
    IN  IF /\ Len(ObjectKeys(cfg.pmMapping)) > 0
           /\ TruthyStr(projectKey)
           /\ Truthy(GetProperty(cfg.pmMapping, projectKey))
        THEN GetProperty(cfg.pmMapping, projectKey)
        ELSE Null

\* SlackService.getUserIdByEmail: the user id, or Null when the user is not
\* found, has no id, or the request fails.
getUserIdByEmail(email, answer) ==
    IF answer = "found" THEN SlackUserOf(email) ELSE Null

\* Variant of resolveSlackTarget that asks the first issue's owner before it
\* looks at the mapping.
resolveSlackTarget_EmailFirst(list, cfg, svc, answer) ==
    LET pmEmail == IF Len(list) > 0 THEN getPmEmail(svc, list[1]) ELSE Null
        slackUserId == IF Truthy(pmEmail) THEN getUserIdByEmail(pmEmail, answer)
                       ELSE Null
    IN  [ target  |-> IF Truthy(slackUserId) THEN slackUserId
                      ELSE IF Truthy(projectMapping(cfg)) THEN projectMapping(cfg)
                      ELSE cfg.slackChannelOrUser,
          lookups |-> IF Truthy(pmEmail) THEN <<pmEmail>> ELSE <<>>,
          reads   |-> IF Len(list) > 0 THEN <<1>> ELSE <<>> ]

\* Variant of resolveSlackTarget that asks the last issue instead of the first.
resolveSlackTarget_LastIssue(list, cfg, svc, answer) ==
    IF Truthy(projectMapping(cfg))
    THEN [ target |-> projectMapping(cfg), lookups |-> <<>>, reads |-> <<>> ]
    ELSE IF Len(list) > 0
    THEN LET pmEmail == getPmEmail(svc, list[Len(list)])
         IN  IF Truthy(pmEmail)
             THEN LET slackUserId == getUserIdByEmail(pmEmail, answer)
                  IN  [ target  |-> IF Truthy(slackUserId) THEN slackUserId
                                    ELSE cfg.slackChannelOrUser,
                        lookups |-> <<pmEmail>>,
                        reads   |-> <<Len(list)>> ]
             ELSE [ target |-> cfg.slackChannelOrUser, lookups |-> <<>>,
                    reads |-> <<Len(list)>> ]
    ELSE [ target |-> cfg.slackChannelOrUser, lookups |-> <<>>, reads |-> <<>> ]

\* resolveSlackTarget: the destination, the emails looked up and the
\* positions of the issues whose PM email was read.
resolveSlackTarget(list, cfg, svc, answer) ==
    IF Truthy(projectMapping(cfg))
    THEN [ target |-> projectMapping(cfg), lookups |-> <<>>, reads |-> <<>> ]
    ELSE IF Len(list) > 0
    THEN LET pmEmail == getPmEmail(svc, list[1])
         IN  IF Truthy(pmEmail)
             THEN LET slackUserId == getUserIdByEmail(pmEmail, answer)
                  IN  [ target  |-> IF Truthy(slackUserId) THEN slackUserId
                                    ELSE cfg.slackChannelOrUser,
                        lookups |-> <<pmEmail>>,
                        reads   |-> <<1>> ]
             ELSE [ target |-> cfg.slackChannelOrUser, lookups |-> <<>>,
                    reads |-> <<1>> ]
    ELSE [ target |-> cfg.slackChannelOrUser, lookups |-> <<>>, reads |-> <<>> ]

\* Variant of filterIssues that applies the sprint filter whatever
\* onlyActiveSprint says.
filterIssues_AlwaysActive(list, cfg, svc) ==
    LET inActive(issue) == isInActiveSprint(svc, issue)
        afterSprint == SelectSeq(list, inActive)
    IN  IF Len(cfg.ticketStatusFilter) > 0
        THEN filterByStatus(afterSprint, cfg.ticketStatusFilter)
        ELSE afterSprint

\* The issues run keeps after the active-sprint and the status filter.
filterIssues(list, cfg, svc) ==
    LET inActive(issue) == isInActiveSprint(svc, issue)
        afterSprint == IF cfg.onlyActiveSprint THEN SelectSeq(list, inActive)
                       ELSE list
    IN  IF cfg.ticketStatusFilter # <<>> /\ Len(cfg.ticketStatusFilter) > 0
        THEN filterByStatus(afterSprint, cfg.ticketStatusFilter)
        ELSE afterSprint

\* issue.sprint?.name || null
NameOrNull(iteration) ==
    IF iteration # <<>> /\ Truthy(iteration[1].name) THEN iteration[1].name ELSE Null

toNotification(issue) ==
    [ ticket |-> issue.key,
      status |-> issue.status,
      sprint |-> NameOrNull(issue.sprint),
      cycle  |-> NameOrNull(issue.cycle),
      url    |-> issue.url ]

\* ------------------------------------------------------------------------
\* State
\* ------------------------------------------------------------------------

VARIABLES
    pc,             \* where run (or getIssues) stands
    config,         \* the Config of loadConfig
    commits,        \* commits of the push event
    parsedCommits,  \* result of parseCommits
    issueIds,       \* result of getAllTicketIds; argument of getIssues
    trackerService, \* <<adapter>> once createIssueTracker returned
    slackService,   \* TRUE once the SlackService is constructed
    inflight,       \* tracker requests sent and not yet answered
    reqIdx,         \* LinearService.getIssues: identifiers resolved so far
    acc,            \* getIssues: the issues collected so far
    responses,      \* getIssues: the answers the backend gave, in order
    issues,         \* what getIssues returned to run
    filteredIssues, \* issues left after both filters
    notifications,  \* NotificationData handed to sendNotification
    slackTarget,    \* <<destination>> once resolveSlackTarget returned
    pmEmailReads,   \* positions of the issues getPmEmail was called on
    outputs,        \* values passed to core.setOutput, per output name
    failures,       \* messages passed to core.setFailed
    calls,          \* network requests started, in order
    slackAnswers,   \* what Slack answered to the lookups and the send
    args,           \* the function under call and its arguments
    result,         \* <<value>> once the function under call returned
    lastIndex,      \* ISSUE_ID_PATTERN.lastIndex
    history         \* the calls of the Extractor so far, with what they gave

vars == << pc, config, commits, parsedCommits, issueIds, trackerService,
           slackService, inflight, reqIdx, acc, responses, issues,
           filteredIssues, notifications, slackTarget, pmEmailReads,
           outputs, failures, calls, slackAnswers, args, result,
           lastIndex, history >>

\* The pattern shared by the calls of the Extractor, and their record.
\* message.match with the global pattern starts at 0 and leaves lastIndex
\* at 0.
patternVars == << lastIndex, history >>

\* The call of a single function on its own; run leaves it alone.
callVars == << args, result, patternVars >>

NoCall == [ fn |-> "run" ]

getIssuesVars == << inflight, reqIdx, acc, responses, issues, calls, slackAnswers >>
afterFetchVars == << filteredIssues, notifications, slackTarget, pmEmailReads >>
beforeFetchVars == << config, commits, parsedCommits, issueIds, trackerService,
                      slackService >>

NoOutputs == [ tickets_found |-> <<>>, tickets_notified |-> <<>>,
               slack_message_ts |-> <<>> ]

setOutput(o, name, value) == [o EXCEPT ![name] = Append(@, value)]

Call(api, arg) == [ api |-> api, arg |-> arg ]

Init ==
    /\ pc = "start"
    /\ config = NoConfig
    /\ commits = <<>>
    /\ parsedCommits = <<>>
    /\ issueIds = <<>>
    /\ trackerService = <<>>
    /\ slackService = FALSE
    /\ inflight = <<>>
    /\ reqIdx = 0
    /\ acc = <<>>
    /\ responses = <<>>
    /\ issues = <<>>
    /\ filteredIssues = <<>>
    /\ notifications = <<>>
    /\ slackTarget = <<>>
    /\ pmEmailReads = <<>>
    /\ outputs = NoOutputs
    /\ failures = <<>>
    /\ calls = <<>>
    /\ slackAnswers = <<>>
    /\ args = NoCall
    /\ result = <<>>
    /\ lastIndex = 0
    /\ history = <<>>

\* ------------------------------------------------------------------------
\* run (index.ts), one action per step
\* ------------------------------------------------------------------------

\* run: loadConfig; a ConfigurationError goes to the catch of run.
LoadConfig ==
    /\ pc = "start"
    /\ \E in \in Inputs :
         IF loadConfigThrows(in)
         THEN /\ failures' = Append(failures, loadConfigError(in))
              /\ pc' = "failed"
              /\ UNCHANGED config
         ELSE /\ config' = loadConfig(in)
              /\ pc' = "getCommitInfo"
              /\ UNCHANGED failures
    /\ UNCHANGED callVars
    /\ UNCHANGED << commits, parsedCommits, issueIds, trackerService, slackService,
                    getIssuesVars, afterFetchVars, outputs >>

\* run: getCommitInfo and the exit for an empty commit list.
GetCommitInfo ==
    /\ pc = "getCommitInfo"
    /\ \E cs \in CommitLists :
         /\ commits' = cs
         /\ IF Len(cs) = 0
            THEN /\ outputs' = setOutput(setOutput(outputs, "tickets_found", 0),
                                         "tickets_notified", 0)
                 /\ pc' = "exit1"
            ELSE /\ pc' = "parse"
                 /\ UNCHANGED outputs
    /\ UNCHANGED callVars
    /\ UNCHANGED << config, parsedCommits, issueIds, trackerService, slackService,
                    getIssuesVars, afterFetchVars, failures >>

\* parseCommits(commits, projectKey) for every commit list the payload can
\* hold and every project key a configuration can give.
parsedCommitsOf ==
    [cs \in CommitLists, key \in {<<>>, KeyAB, KeyCD} |-> parseCommits(cs, key)]

\* Variant of ParseCommits that reports the number of commits that hold an
\* identifier as tickets_found.
ParseCommits_CountsCommits ==
    /\ pc = "parse"
    /\ parsedCommits' = parsedCommitsOf[commits, getProjectKey(config)]
    /\ issueIds' = getAllTicketIds(parsedCommits')
    /\ IF Len(issueIds') = 0
       THEN /\ outputs' = setOutput(setOutput(outputs, "tickets_found", 0),
                                    "tickets_notified", 0)
            /\ pc' = "exit2"
       ELSE /\ outputs' = setOutput(outputs, "tickets_found", Len(parsedCommits'))
            /\ pc' = "createTracker"
    /\ UNCHANGED callVars
    /\ UNCHANGED << config, commits, trackerService, slackService,
                    getIssuesVars, afterFetchVars, failures >>

\* run: parseCommits, getAllTicketIds and the exit when no identifier is left.
ParseCommits ==
    /\ pc = "parse"
    /\ parsedCommits' = parsedCommitsOf[commits, getProjectKey(config)]
    /\ issueIds' = getAllTicketIds(parsedCommits')
    /\ IF Len(issueIds') = 0
       THEN /\ outputs' = setOutput(setOutput(outputs, "tickets_found", 0),
                                    "tickets_notified", 0)
            /\ pc' = "exit2"
       ELSE /\ outputs' = setOutput(outputs, "tickets_found", Len(issueIds'))
            /\ pc' = "createTracker"
    /\ UNCHANGED callVars
    /\ UNCHANGED << config, commits, trackerService, slackService,
                    getIssuesVars, afterFetchVars, failures >>

\* Variant of CreateTracker that reports the ConfigurationError and goes on
\* with the adapter.
CreateTracker_WarnOnly ==
    /\ pc = "createTracker"
    /\ IF createIssueTrackerError(config) # NoError
       THEN failures' = Append(failures, createIssueTrackerError(config))
       ELSE UNCHANGED failures
    /\ trackerService' = <<createIssueTracker(config)>>
    /\ slackService' = TRUE
    /\ pc' = "getIssues"
    /\ UNCHANGED callVars
    /\ UNCHANGED << config, commits, parsedCommits, issueIds,
                    getIssuesVars, afterFetchVars, outputs >>

\* run: createIssueTracker and new SlackService.
CreateTracker ==
    /\ pc = "createTracker"
    /\ IF createIssueTrackerError(config) # NoError
       THEN /\ failures' = Append(failures, createIssueTrackerError(config))
            /\ pc' = "failed"
            /\ UNCHANGED << trackerService, slackService >>
       ELSE /\ trackerService' = <<createIssueTracker(config)>>
            /\ slackService' = TRUE
            /\ pc' = "getIssues"
            /\ UNCHANGED failures
    /\ UNCHANGED callVars
    /\ UNCHANGED << config, commits, parsedCommits, issueIds,
                    getIssuesVars, afterFetchVars, outputs >>

\* ------------------------------------------------------------------------
\* getIssues of the adapter (services/jira, services/linear)
\* ------------------------------------------------------------------------

restOfRun == << config, commits, parsedCommits, issueIds, trackerService,
                slackService, afterFetchVars, outputs, slackAnswers >>

\* getIssues is entered: an empty identifier list returns at once.
GetIssuesCall ==
    /\ pc = "getIssues"
    /\ IF Len(issueIds) = 0
       THEN /\ issues' = <<>>
            /\ pc' = "haveIssues"
       ELSE /\ pc' = "fetching"
            /\ UNCHANGED issues
    /\ UNCHANGED callVars
    /\ UNCHANGED << inflight, reqIdx, acc, responses, calls, failures, restOfRun >>

\* JiraService.getJiraIssues posts the one search request, for all keys and
\* with maxResults 100.
JiraRequest ==
    /\ pc = "fetching"
    /\ trackerService[1].kind = "jira"
    /\ inflight = <<>>
    /\ inflight' = <<Call("jira.search", <<issueIds, 100>>)>>
    /\ calls' = Append(calls, Call("jira.search", <<issueIds, 100>>))
    /\ pc' = "awaitJira"
    /\ UNCHANGED callVars
    /\ UNCHANGED << reqIdx, acc, responses, issues, failures, restOfRun >>

\* Variant of JiraResponse that posts the search once more after a failure.
JiraResponse_Retry ==
    /\ pc = "awaitJira"
    /\ \E answer \in JiraAnswers(issueIds) :
         LET res == JiraGetIssuesResult(trackerService[1], answer)
         IN  /\ responses' = Append(responses, answer)
             /\ IF answer.kind # "ok" /\ Len(responses) = 0
                THEN /\ pc' = "fetching"
                     /\ UNCHANGED acc
                ELSE /\ acc' = res.issues
                     /\ pc' = "fetched"
    /\ inflight' = <<>>
    /\ UNCHANGED callVars
    /\ UNCHANGED << reqIdx, issues, calls, failures, restOfRun >>

\* The search request is answered and JiraService.getIssues finishes; an
\* error that leaves getIssues reaches the catch of run.
JiraResponse ==
    /\ pc = "awaitJira"
    /\ \E answer \in JiraAnswers(issueIds) :
         LET res == JiraGetIssuesResult(trackerService[1], answer)
         IN  /\ responses' = Append(responses, answer)
             /\ IF res.threw
                THEN /\ failures' = Append(failures, <<"Jira API error">>)
                     /\ pc' = "failed"
                     /\ UNCHANGED acc
                ELSE /\ acc' = res.issues
                     /\ pc' = "fetched"
                     /\ UNCHANGED failures
    /\ inflight' = <<>>
    /\ UNCHANGED callVars
    /\ UNCHANGED << reqIdx, issues, calls, restOfRun >>

\* Variant of LinearRequest that starts getIssue for all identifiers left
\* at once.
LinearRequest_AllAtOnce ==
    /\ pc = "fetching"
    /\ trackerService[1].kind = "linear"
    /\ inflight = <<>>
    /\ reqIdx < Len(issueIds)
    /\ inflight' = [i \in 1..(Len(issueIds) - reqIdx) |->
                      Call("linear.issue", <<issueIds[reqIdx + i]>>)]
    /\ calls' = calls \o [i \in 1..(Len(issueIds) - reqIdx) |->
                            Call("linear.issue", <<issueIds[reqIdx + i]>>)]
    /\ pc' = "awaitLinear"
    /\ UNCHANGED callVars
    /\ UNCHANGED << reqIdx, acc, responses, issues, failures, restOfRun >>

\* LinearService.getIssues: the loop starts getIssue for the next identifier.
LinearRequest ==
    /\ pc = "fetching"
    /\ trackerService[1].kind = "linear"
    /\ inflight = <<>>
    /\ reqIdx < Len(issueIds)
    /\ inflight' = <<Call("linear.issue", <<issueIds[reqIdx + 1]>>)>>
    /\ calls' = Append(calls, Call("linear.issue", <<issueIds[reqIdx + 1]>>))
    /\ pc' = "awaitLinear"
    /\ UNCHANGED callVars
    /\ UNCHANGED << reqIdx, acc, responses, issues, failures, restOfRun >>

\* The request is answered and getIssue returns; an error that leaves
\* getIssue is caught by getIssues, which then returns the empty list.
LinearResponse ==
    /\ pc = "awaitLinear"
    /\ \E answer \in LinearAnswers(issueIds[reqIdx + 1]), now \in Times :
         LET res == LinearGetIssueResult(trackerService[1], answer, now)
         IN  /\ responses' = Append(responses, answer)
             /\ IF res.threw
                THEN /\ acc' = <<>>
                     /\ reqIdx' = reqIdx
                     /\ pc' = "fetched"
                ELSE /\ acc' = acc \o res.issue
                     /\ reqIdx' = reqIdx + 1
                     /\ pc' = IF reqIdx + 1 = Len(issueIds) THEN "fetched"
                              ELSE "fetching"
    /\ inflight' = <<>>
    /\ UNCHANGED callVars
    /\ UNCHANGED << issues, calls, failures, restOfRun >>

\* getIssues returns; its locals are gone.
GetIssuesReturn ==
    /\ pc = "fetched"
    /\ issues' = acc
    /\ acc' = <<>>
    /\ responses' = <<>>
    /\ reqIdx' = 0
    /\ pc' = "haveIssues"
    /\ UNCHANGED callVars
    /\ UNCHANGED << inflight, calls, failures, restOfRun >>

\* ------------------------------------------------------------------------
\* run (index.ts), after the fetch
\* ------------------------------------------------------------------------

\* Variant of ProcessIssues without the exit when the filters leave nothing.
ProcessIssues_NoEmptyExit ==
    /\ pc = "haveIssues"
    /\ IF Len(issues) = 0
       THEN /\ outputs' = setOutput(outputs, "tickets_notified", 0)
            /\ pc' = "exit3"
            /\ UNCHANGED << filteredIssues, notifications >>
       ELSE LET kept == filterIssues(issues, config, trackerService[1])
            IN  /\ filteredIssues' = kept
                /\ notifications' =
                     [i \in 1..Len(kept) |-> toNotification(kept[i])]
                /\ pc' = "resolve"
                /\ UNCHANGED outputs
    /\ UNCHANGED callVars
    /\ UNCHANGED << beforeFetchVars, getIssuesVars, slackTarget, pmEmailReads,
                    failures >>

\* Variant of ProcessIssues that builds the notification records from the
\* last surviving issue to the first.
ProcessIssues_ReversedRecords ==
    /\ pc = "haveIssues"
    /\ IF Len(issues) = 0
       THEN /\ outputs' = setOutput(outputs, "tickets_notified", 0)
            /\ pc' = "exit3"
            /\ UNCHANGED << filteredIssues, notifications >>
       ELSE LET kept == filterIssues(issues, config, trackerService[1])
            IN  /\ filteredIssues' = kept
                /\ IF Len(kept) = 0
                   THEN /\ outputs' = setOutput(outputs, "tickets_notified", 0)
                        /\ pc' = "exit6"
                        /\ UNCHANGED notifications
                   ELSE /\ notifications' =
                             [i \in 1..Len(kept) |->
                                 toNotification(kept[Len(kept) + 1 - i])]
                        /\ pc' = "resolve"
                        /\ UNCHANGED outputs
    /\ UNCHANGED callVars
    /\ UNCHANGED << beforeFetchVars, getIssuesVars, slackTarget, pmEmailReads,
                    failures >>

\* run: the exit for no issues, both filters, the exit for no issue left,
\* and the notification records.
ProcessIssues ==
    /\ pc = "haveIssues"
    /\ IF Len(issues) = 0
       THEN /\ outputs' = setOutput(outputs, "tickets_notified", 0)
            /\ pc' = "exit3"
            /\ UNCHANGED << filteredIssues, notifications >>
       ELSE LET kept == filterIssues(issues, config, trackerService[1])
            IN  /\ filteredIssues' = kept
                /\ IF Len(kept) = 0
                   THEN /\ outputs' = setOutput(outputs, "tickets_notified", 0)
                        /\ pc' = "exit6"
                        /\ UNCHANGED notifications
                   ELSE /\ notifications' =
                             [i \in 1..Len(kept) |-> toNotification(kept[i])]
                        /\ pc' = "resolve"
                        /\ UNCHANGED outputs
    /\ UNCHANGED callVars
    /\ UNCHANGED << beforeFetchVars, getIssuesVars, slackTarget, pmEmailReads,
                    failures >>

\* run: resolveSlackTarget up to its await: the mapping entry is returned,
\* or the owner of the first issue is read and users.lookupByEmail is
\* started, or the default is returned. (The emails looked up, the issues
\* read and, without a lookup, the destination are the same for every
\* answer.)
ResolveSlackTarget ==
    /\ pc = "resolve"
    /\ \E answer \in LookupAnswers :
         LET res == resolveSlackTarget(filteredIssues, config, trackerService[1],
                                       answer)
             requests == [i \in 1..Len(res.lookups) |->
                            Call("slack.lookupByEmail", <<res.lookups[i]>>)]
         IN  /\ pmEmailReads' = pmEmailReads \o res.reads
             /\ calls' = calls \o requests
             /\ inflight' = requests
             /\ IF Len(res.lookups) = 0
                THEN /\ slackTarget' = <<res.target>>
                     /\ pc' = "send"
                ELSE /\ pc' = "awaitLookup"
                     /\ UNCHANGED slackTarget
    /\ UNCHANGED callVars
    /\ UNCHANGED << beforeFetchVars, reqIdx, acc, responses, issues,
                    filteredIssues, notifications, outputs, failures,
                    slackAnswers >>

\* users.lookupByEmail is answered: getUserIdByEmail returns and
\* resolveSlackTarget gives the user found or the default.
LookupResponse ==
    /\ pc = "awaitLookup"
    /\ \E answer \in LookupAnswers :
         /\ slackAnswers' = Append(slackAnswers, answer)
         /\ slackTarget' =
              <<resolveSlackTarget(filteredIssues, config, trackerService[1],
                                   answer).target>>
    /\ inflight' = <<>>
    /\ pc' = "send"
    /\ UNCHANGED callVars
    /\ UNCHANGED << beforeFetchVars, reqIdx, acc, responses, issues,
                    filteredIssues, notifications, pmEmailReads, outputs,
                    failures, calls >>

\* The message of the error sendNotification throws, or NoError.
sendNotificationError(answer) ==
    IF answer = "not_ok" THEN <<"Failed to send Slack message">>
    ELSE IF answer = "platform_error"
    THEN <<"Slack API error: ", "An API error occurred: channel_not_found">>
    ELSE IF answer = "other_error" THEN <<"A request error occurred">>
    ELSE NoError

\* response.ts of a message that was posted.
sendNotificationTs(answer) ==
    IF answer = "ok" THEN "1700000000.000100" ELSE Null

\* run: sendNotification up to its await: chat.postMessage is started for
\* the destination, with the records and the environment.
SendNotification ==
    /\ pc = "send"
    /\ calls' = Append(calls, Call("slack.postMessage",
                                   <<slackTarget[1], Len(notifications),
                                     config.environment>>))
    /\ inflight' = <<Call("slack.postMessage",
                         <<slackTarget[1], Len(notifications),
                           config.environment>>)>>
    /\ pc' = "awaitSend"
    /\ UNCHANGED callVars
    /\ UNCHANGED << beforeFetchVars, reqIdx, acc, responses, issues,
                    afterFetchVars, outputs, failures, slackAnswers >>

\* Variant of SendResponse that reports the number of fetched issues.
SendResponse_ReportsFetched ==
    /\ pc = "awaitSend"
    /\ \E answer \in SendAnswers :
         /\ slackAnswers' = Append(slackAnswers, answer)
         /\ IF sendNotificationError(answer) # NoError
            THEN /\ failures' = Append(failures, sendNotificationError(answer))
                 /\ pc' = "failed"
                 /\ UNCHANGED outputs
            ELSE /\ outputs' =
                      LET o == setOutput(outputs, "tickets_notified", Len(issues))
                      IN  IF Truthy(sendNotificationTs(answer))
                          THEN setOutput(o, "slack_message_ts",
                                         sendNotificationTs(answer))
                          ELSE o
                 /\ pc' = "notified"
                 /\ UNCHANGED failures
    /\ inflight' = <<>>
    /\ UNCHANGED callVars
    /\ UNCHANGED << beforeFetchVars, reqIdx, acc, responses, issues, calls,
                    afterFetchVars >>

\* Variant of SendResponse that logs a failed send and ends the run as if
\* nothing was to be sent.
SendResponse_SwallowsError ==
    /\ pc = "awaitSend"
    /\ \E answer \in SendAnswers :
         /\ slackAnswers' = Append(slackAnswers, answer)
         /\ IF sendNotificationError(answer) # NoError
            THEN outputs' = setOutput(outputs, "tickets_notified", 0)
            ELSE outputs' =
                      LET o == setOutput(outputs, "tickets_notified",
                                         Len(notifications))
                      IN  IF Truthy(sendNotificationTs(answer))
                          THEN setOutput(o, "slack_message_ts",
                                         sendNotificationTs(answer))
                          ELSE o
    /\ pc' = "notified"
    /\ inflight' = <<>>
    /\ UNCHANGED failures
    /\ UNCHANGED callVars
    /\ UNCHANGED << beforeFetchVars, reqIdx, acc, responses, issues, calls,
                    afterFetchVars >>

\* Variant of SendResponse that, when the first send fails, resolves the
\* destination again and sends once more.
SendResponse_ResendOnError ==
    /\ pc = "awaitSend"
    /\ \E answer \in SendAnswers :
         /\ slackAnswers' = Append(slackAnswers, answer)
         /\ IF sendNotificationError(answer) # NoError
            THEN IF LET isPost(c) == c.api = "slack.postMessage"
                    IN  Len(SelectSeq(calls, isPost)) = 1
                 THEN /\ pc' = "resolve"
                      /\ UNCHANGED << outputs, failures >>
                 ELSE /\ failures' = Append(failures, sendNotificationError(answer))
                      /\ pc' = "failed"
                      /\ UNCHANGED outputs
            ELSE /\ outputs' =
                      LET o == setOutput(outputs, "tickets_notified", Len(notifications))
                      IN  IF Truthy(sendNotificationTs(answer))
                          THEN setOutput(o, "slack_message_ts",
                                         sendNotificationTs(answer))
                          ELSE o
                 /\ pc' = "notified"
                 /\ UNCHANGED failures
    /\ inflight' = <<>>
    /\ UNCHANGED callVars
    /\ UNCHANGED << beforeFetchVars, reqIdx, acc, responses, issues, calls,
                    afterFetchVars >>

\* chat.postMessage is answered: sendNotification returns and run sets the
\* outputs, or the error reaches the catch of run.
SendResponse ==
    /\ pc = "awaitSend"
    /\ \E answer \in SendAnswers :
         /\ slackAnswers' = Append(slackAnswers, answer)
         /\ IF sendNotificationError(answer) # NoError
            THEN /\ failures' = Append(failures, sendNotificationError(answer))
                 /\ pc' = "failed"
                 /\ UNCHANGED outputs
            ELSE /\ outputs' =
                      LET o == setOutput(outputs, "tickets_notified", Len(notifications))
                      IN  IF Truthy(sendNotificationTs(answer))
                          THEN setOutput(o, "slack_message_ts",
                                         sendNotificationTs(answer))
                          ELSE o
                 /\ pc' = "notified"
                 /\ UNCHANGED failures
    /\ inflight' = <<>>
    /\ UNCHANGED callVars
    /\ UNCHANGED << beforeFetchVars, reqIdx, acc, responses, issues, calls,
                    afterFetchVars >>

Next ==
    \/ LoadConfig
    \/ GetCommitInfo
    \/ ParseCommits
    \/ CreateTracker
    \/ GetIssuesCall
    \/ JiraRequest
    \/ JiraResponse
    \/ LinearRequest
    \/ LinearResponse
    \/ GetIssuesReturn
    \/ ProcessIssues
    \/ ResolveSlackTarget
    \/ LookupResponse
    \/ SendNotification
    \/ SendResponse

Spec == Init /\ [][Next]_vars

\* run is started once and every await of it resolves or rejects: the
\* continuation that is ready is run.
FairSpec == Spec /\ WF_vars(Next)

\* ------------------------------------------------------------------------
\* getIssues on its own: any adapter, any identifier list
\* ------------------------------------------------------------------------

\* Longest identifier list handed to getIssues.
MaxIds == 2

TicketIds == {AB1, AB2, CD2}

\* Identifier lists without repetition (getAllTicketIds removes duplicates).
IdLists ==
    UNION { { l \in [1..n -> TicketIds] :
                \A i, j \in 1..n : l[i] = l[j] => i = j } : n \in 0..MaxIds }

Adapters ==
    { JiraService(u) : u \in {UrlJira, UrlJiraSlash} }
    \cup { LinearService(k) : k \in {<<>>, KeyAB, KeyCD} }

InitGetIssues ==
    /\ pc = "getIssues"
    /\ config = NoConfig
    /\ commits = <<>>
    /\ parsedCommits = <<>>
    /\ issueIds \in IdLists
    /\ trackerService \in { <<a>> : a \in Adapters }
    /\ slackService = FALSE
    /\ inflight = <<>>
    /\ reqIdx = 0
    /\ acc = <<>>
    /\ responses = <<>>
    /\ issues = <<>>
    /\ filteredIssues = <<>>
    /\ notifications = <<>>
    /\ slackTarget = <<>>
    /\ pmEmailReads = <<>>
    /\ outputs = NoOutputs
    /\ failures = <<>>
    /\ calls = <<>>
    /\ slackAnswers = <<>>
    /\ args = NoCall
    /\ result = <<>>
    /\ lastIndex = 0
    /\ history = <<>>

NextGetIssues ==
    \/ GetIssuesCall
    \/ JiraRequest
    \/ JiraResponse
    \/ LinearRequest
    \/ LinearResponse
    \/ GetIssuesReturn

SpecGetIssues == InitGetIssues /\ [][NextGetIssues]_vars

\* ------------------------------------------------------------------------
\* The functions of the adapters and of utils/parser on their own
\* ------------------------------------------------------------------------

\* Longest issue list handed to filterByStatus.
MaxIssues == 2

\* Status names of the issues handed to the adapters.
Statuses == {"Done", "done", "In Progress"}

\* The i-th issue of a list has the i-th identifier.
TicketIdAt(i) == IF i = 1 THEN AB1 ELSE IF i = 2 THEN AB2 ELSE CD2

\* The Issue lists handed to filterByStatus: any status at any position,
\* as convertToGenericIssue of the adapter builds them.
IssueListsOf(svc) ==
    UNION { { [i \in 1..n |->
                 IF svc.kind = "jira"
                 THEN JiraConvertToGenericIssue(svc,
                        JiraIssueOf(TicketIdAt(i),
                          [status |-> st[i], sprint |-> SprintOf("active"),
                           customfield_pm |-> Null, reporter |-> Null]))
                 ELSE LinearConvertToGenericIssue(
                        LinearIssueOf(TicketIdAt(i),
                          [status |-> st[i], cycle |-> <<>>, team |-> KeyAB]), 0)] :
              st \in [1..n -> Statuses] } : n \in 0..MaxIssues }

\* allowedStatuses of filterByStatus; <<>> is an absent or an empty list.
AllowedStatusLists ==
    { <<>>, <<"Done">>, <<"done">>, <<"In Progress", "Done">>, <<"Closed">> }

\* The Issues handed to isInActiveSprint: what convertToGenericIssue of the
\* adapter builds from the issues of the backend, at any time.
IssuesOf(svc) ==
    IF svc.kind = "jira"
    THEN { JiraConvertToGenericIssue(svc, JiraIssueOf(id, sh)) :
             id \in TicketIds, sh \in JiraShapes }
    ELSE { LinearConvertToGenericIssue(LinearIssueOf(id, sh), now) :
             id \in TicketIds, sh \in LinearShapes, now \in Times }

\* The cycles handed to getCycleState.
Cycles ==
    { CycleOf(s, e, c)[1] :
        s \in Times, e \in Times, c \in {<<>>} \cup { <<t>> : t \in Times } }

\* The Jira issues whose owner is asked for: emailAddress of customfield_pm
\* and of the reporter, each absent (Null), empty or given.
OwnerIssues ==
    { JiraIssueOf(AB1, [status |-> "Done", sprint |-> <<>>,
                        customfield_pm |-> cf, reporter |-> rep]) :
        cf \in {Null, "", "pm@corp.example"},
        rep \in {Null, "", "rep@corp.example"} }

OwnerCalls ==
    { [fn |-> "getPmEmail", service |-> svc, jiraIssue |-> ji] :
        svc \in { a \in Adapters : a.kind = "jira" }, ji \in OwnerIssues }

AdapterCalls ==
    UNION { { [fn |-> "isInActiveSprint", service |-> svc, issue |-> issue] :
                issue \in IssuesOf(svc) } : svc \in Adapters }
    \cup
    UNION { { [fn |-> "filterByStatus", service |-> svc, issues |-> l,
               allowedStatuses |-> allowed] :
                l \in IssueListsOf(svc), allowed \in AllowedStatusLists } :
            svc \in Adapters }
    \cup
    { [fn |-> "getCycleState", cycle |-> c, now |-> now] :
        c \in Cycles, now \in Times }

\* No run is under way.
RunIdle ==
    /\ pc = "idle"
    /\ config = NoConfig
    /\ commits = <<>>
    /\ parsedCommits = <<>>
    /\ issueIds = <<>>
    /\ trackerService = <<>>
    /\ slackService = FALSE
    /\ inflight = <<>>
    /\ reqIdx = 0
    /\ acc = <<>>
    /\ responses = <<>>
    /\ issues = <<>>
    /\ filteredIssues = <<>>
    /\ notifications = <<>>
    /\ slackTarget = <<>>
    /\ pmEmailReads = <<>>
    /\ outputs = NoOutputs
    /\ failures = <<>>
    /\ calls = <<>>
    /\ slackAnswers = <<>>

runVars == << pc, config, commits, parsedCommits, issueIds, trackerService,
              slackService, inflight, reqIdx, acc, responses, issues,
              filteredIssues, notifications, slackTarget, pmEmailReads,
              outputs, failures, calls, slackAnswers >>

\* service.isInActiveSprint(issue)
IsInActiveSprintCall ==
    /\ args.fn = "isInActiveSprint"
    /\ result = <<>>
    /\ result' = <<isInActiveSprint(args.service, args.issue)>>
    /\ UNCHANGED << args, runVars, patternVars >>

\* service.filterByStatus(issues, allowedStatuses)
FilterByStatusCall ==
    /\ args.fn = "filterByStatus"
    /\ result = <<>>
    /\ result' = <<filterByStatus(args.issues, args.allowedStatuses)>>
    /\ UNCHANGED << args, runVars, patternVars >>

\* JiraService: convertToGenericIssue(jiraIssue), then getPmEmail(issue)
GetPmEmailCall ==
    /\ args.fn = "getPmEmail"
    /\ result = <<>>
    /\ result' = <<getPmEmail(args.service,
                              JiraConvertToGenericIssue(args.service, args.jiraIssue))>>
    /\ UNCHANGED << args, runVars, patternVars >>

\* LinearService.getCycleState(cycle), with the clock at args.now
GetCycleStateCall ==
    /\ args.fn = "getCycleState"
    /\ result = <<>>
    /\ result' = <<getCycleState(args.cycle, args.now)>>
    /\ UNCHANGED << args, runVars, patternVars >>

\* Largest number of words in a message handed to extractTicketIds.
MaxWords == 3

\* Largest number of commits handed to parseCommits.
MaxParsed == 2

ABC3 == <<"A", "B", "C", "-", "3">>
AB12 == <<"A", "B", "-", "1", "2">>

\* A prefix of ten letters and one of eleven.
TenLetters    == <<"A", "B", "C", "D", "E", "F", "G", "H", "I", "J">>
ElevenLetters == TenLetters \o <<"K">>

\* The words of the messages: identifiers bare, bracketed, parenthesized
\* and followed by punctuation, and words that hold none: a lowercase
\* prefix, a prefix of one letter, a prefix of eleven letters, no digits,
\* word characters right before or after.
Words ==
    { AB1, CD2, ABC3, AB12,
      <<"[">> \o AB1 \o <<"]">>,
      <<"(">> \o AB2 \o <<")">>,
      CD2 \o <<":">>,
      TenLetters \o <<"-", "7">>,
      <<"a", "b", "-", "1">>,
      <<"A", "-", "1">>,
      ElevenLetters \o <<"-", "1">>,
      <<"A", "B", "-">>,
      <<"x">> \o AB1,
      AB1 \o <<"x">>,
      <<"A", "B", "_">> \o CD2,
      <<"f", "i", "x">> }

\* words joined by single blanks
RECURSIVE JoinWords(_)
JoinWords(ws) ==
    IF ws = <<>> THEN <<>>
    ELSE IF Len(ws) = 1 THEN ws[1]
    ELSE ws[1] \o <<" ">> \o JoinWords(Tail(ws))

Messages ==
    UNION { { JoinWords(ws) : ws \in [1..n -> Words] } : n \in 0..MaxWords }

\* Commit messages handed to parseCommits:
\*   "AB-1 CD-2", "ABC-3 AB-2 AB-1", "CD-2", "fix ab-1".
ParsedMessages ==
    { MsgTwoProjects,
      ABC3 \o <<" ">> \o AB2 \o <<" ">> \o AB1,
      CD2,
      MsgNoTicket }

ParsedCommitLists ==
    UNION { { [i \in 1..n |-> [id |-> i, message |-> ms[i]]] :
                ms \in [1..n -> ParsedMessages] } : n \in 0..MaxParsed }

ParserCalls ==
    { [fn |-> "extractTicketIds", message |-> m] : m \in Messages }
    \cup
    { [fn |-> "parseCommits", commits |-> cs, projectKey |-> k] :
        cs \in ParsedCommitLists, k \in {<<>>, KeyAB, KeyCD} }
    \cup
    { [fn |-> "getAllTicketIds", parsedCommits |-> parseCommits(cs, k)] :
        cs \in ParsedCommitLists, k \in {<<>>, KeyAB, KeyCD} }

\* extractTicketIds(message)
ExtractTicketIdsCall ==
    /\ args.fn = "extractTicketIds"
    /\ result = <<>>
    /\ result' = <<extractTicketIds(args.message)>>
    /\ UNCHANGED << args, runVars, patternVars >>

\* parseCommits(commits, projectKey)
ParseCommitsCall ==
    /\ args.fn = "parseCommits"
    /\ result = <<>>
    /\ result' = <<parseCommits(args.commits, args.projectKey)>>
    /\ UNCHANGED << args, runVars, patternVars >>

\* getAllTicketIds(parsedCommits)
GetAllTicketIdsCall ==
    /\ args.fn = "getAllTicketIds"
    /\ result = <<>>
    /\ result' = <<getAllTicketIds(args.parsedCommits)>>
    /\ UNCHANGED << args, runVars, patternVars >>

InitFunctions ==
    /\ RunIdle
    /\ args \in AdapterCalls \cup OwnerCalls \cup ParserCalls
    /\ result = <<>>
    /\ lastIndex = 0
    /\ history = <<>>

NextFunctions ==
    \/ IsInActiveSprintCall
    \/ FilterByStatusCall
    \/ GetCycleStateCall
    \/ GetPmEmailCall
    \/ ExtractTicketIdsCall
    \/ ParseCommitsCall
    \/ GetAllTicketIdsCall

SpecFunctions == InitFunctions /\ [][NextFunctions]_vars

\* The function under call has returned.
Returned(fn) == args.fn = fn /\ result # <<>>

\* ------------------------------------------------------------------------
\* The Extractor called again and again, with the pattern it shares
\* ------------------------------------------------------------------------

\* Largest number of calls of the Extractor.
MaxCalls == 3

\* The end of the last match of the pattern in msg from position i on, or 0.
RECURSIVE LastMatchEnd(_, _)
LastMatchEnd(msg, i) ==
    IF i > Len(msg) THEN 0
    ELSE LET ends == MatchEnds(msg, i)
         IN  IF ends # {}
             THEN LET later == LastMatchEnd(msg, Max(ends) + 1)
                  IN  IF later = 0 THEN Max(ends) ELSE later
             ELSE LastMatchEnd(msg, i + 1)

\* Variant of matchGlobal that scans on from lastIndex and leaves lastIndex
\* behind the last match, as a loop over exec without a reset does.
matchGlobal_FromLastIndex(message, li) ==
    [ matches   |-> MatchAll(message, li + 1),
      lastIndex |-> LastMatchEnd(message, li + 1) ]

\* message.match(ISSUE_ID_PATTERN) with the pattern's lastIndex at li: for
\* a global pattern match sets lastIndex to 0, collects all matches and
\* leaves lastIndex at 0.
matchGlobal(message, li) ==
    [ matches   |-> MatchAll(message, 1),
      lastIndex |-> 0 ]

\* extractTicketIds with the state of the pattern: what it returns and the
\* lastIndex it leaves.
extractTicketIdsAt(message, li) ==
    LET m == matchGlobal(message, li)
    IN  [ value |-> Dedup(m.matches), lastIndex |-> m.lastIndex ]

\* parseCommits with the state of the pattern, commit after commit.
RECURSIVE parseCommitsAt(_, _, _)
parseCommitsAt(cs, projectKey, li) ==
    IF cs = <<>> THEN [ value |-> <<>>, lastIndex |-> li ]
    ELSE LET ex   == extractTicketIdsAt(cs[1].message, li)
             keep(id) == StartsWith(id, projectKey \o <<"-">>)
             ft   == IF TruthyStr(projectKey) THEN SelectSeq(ex.value, keep)
                     ELSE ex.value
             rest == parseCommitsAt(Tail(cs), projectKey, ex.lastIndex)
         IN  [ value     |-> (IF Len(ft) > 0
                              THEN <<[sha |-> cs[1].id, ticketIds |-> ft]>>
                              ELSE <<>>) \o rest.value,
               lastIndex |-> rest.lastIndex ]

\* The inputs of the repeated calls.
ExtractorCalls ==
    { [fn |-> "extractTicketIds", message |-> m] :
        m \in {MsgTwoProjects, MsgBracketed, MsgNoTicket, AB1} }
    \cup
    { [fn |-> "parseCommits", commits |-> cs, projectKey |-> k] :
        cs \in { <<[id |-> 1, message |-> MsgTwoProjects]>>,
                 <<[id |-> 1, message |-> MsgBracketed],
                   [id |-> 2, message |-> MsgTwoProjects]>> },
        k \in {<<>>, KeyAB} }

InitExtractor ==
    /\ RunIdle
    /\ args = NoCall
    /\ result = <<>>
    /\ lastIndex = 0
    /\ history = <<>>

\* One more call of extractTicketIds.
ExtractTicketIdsAgain ==
    /\ Len(history) < MaxCalls
    /\ \E call \in { c \in ExtractorCalls : c.fn = "extractTicketIds" } :
         LET r == extractTicketIdsAt(call.message, lastIndex)
         IN  /\ args' = call
             /\ result' = <<r.value>>
             /\ lastIndex' = r.lastIndex
             /\ history' = Append(history, [call |-> call, gave |-> <<r.value>>])
    /\ UNCHANGED runVars

\* One more call of parseCommits, followed by getAllTicketIds on its result.
ParseCommitsAgain ==
    /\ Len(history) < MaxCalls
    /\ \E call \in { c \in ExtractorCalls : c.fn = "parseCommits" } :
         LET r == parseCommitsAt(call.commits, call.projectKey, lastIndex)
         IN  /\ args' = call
             /\ result' = <<r.value, getAllTicketIds(r.value)>>
             /\ lastIndex' = r.lastIndex
             /\ history' = Append(history,
                   [call |-> call, gave |-> <<r.value, getAllTicketIds(r.value)>>])
    /\ UNCHANGED runVars

NextExtractor ==
    \/ ExtractTicketIdsAgain
    \/ ParseCommitsAgain

SpecExtractor == InitExtractor /\ [][NextExtractor]_vars

\* ------------------------------------------------------------------------
\* JiraService and LinearService on their own: the methods run does not call
\* ------------------------------------------------------------------------

\* Most requests an adapter is asked to make.
MaxTrackerCalls == 2

\* Most sprints a board reports in one answer.
MaxSprints == 2

\* The board ids handed to getActiveSprint; 0 is falsy as no board id is.
BoardIds == {0, 12}

TeamIds == {"team-1"}

SprintStates == {"active", "closed", "future"}

\* The sprints GET /rest/agile/1.0/board/<id>/sprint can list.
SprintLists ==
    UNION { [1..n -> { [id |-> i, name |-> "Sprint 7", state |-> st] :
                         i \in {7}, st \in SprintStates }] : n \in 0..MaxSprints }

\* What the sprint request can answer: a page of sprints, an HTTP error
\* status or timeout (the interceptor throws a JiraApiError), or a body
\* without a values array.
JiraSprintAnswers ==
    { [kind |-> "ok", values |-> l] : l \in SprintLists }
    \cup { [kind |-> k, values |-> <<>>] : k \in {"http_error", "timeout", "malformed"} }

\* What GET /rest/api/3/issue/<id> can answer: the issue, status 404,
\* another HTTP error status or timeout, or a body without fields.
JiraIssueAnswers(id) ==
    { [kind |-> "found", issue |-> JiraIssueOf(id, sh)] : sh \in JiraShapes }
    \cup { [kind |-> k, issue |-> NoIssue] :
             k \in {"not_found", "http_error", "timeout", "malformed"} }

\* What the GetActiveCycle query can answer: team.activeCycle (a cycle or
\* null), an errors array, a rejected request, or data without a team.
LinearCycleAnswers ==
    { [kind |-> "ok", cycle |-> c] :
        c \in {<<>>, CycleOf(1, 2, <<>>), CycleOf(1, 2, <<2>>)} }
    \cup { [kind |-> k, cycle |-> <<>>] : k \in {"errors", "transport", "malformed"} }

\* The node lists the SearchIssues query can return for the identifiers
\* asked for: any of them may be missing.
RECURSIVE LinearIssueLists(_)
LinearIssueLists(ids) ==
    IF ids = <<>> THEN {<<>>}
    ELSE LET rest == LinearIssueLists(Tail(ids))
         IN  rest \cup { <<LinearIssueOf(Head(ids), sh)>> \o r :
                            sh \in LinearShapes, r \in rest }

\* What the SearchIssues query can answer: the nodes, an errors array, a
\* rejected request, or data without issues.
LinearSearchAnswers(ids) ==
    { [kind |-> "ok", nodes |-> l] : l \in LinearIssueLists(ids) }
    \cup { [kind |-> k, nodes |-> <<>>] : k \in {"errors", "transport", "malformed"} }

\* JiraService.getActiveSprint after the request was answered: <<sprint>>,
\* the first of the sprints whose state is active, or <<>> for null; every
\* error is caught.
getActiveSprintResult(answer) ==
    IF answer.kind # "ok" THEN <<>>
    ELSE LET isActive(sprint) == sprint.state = "active"
             activeSprints == SelectSeq(answer.values, isActive)
         IN  IF Len(activeSprints) = 0 THEN <<>> ELSE <<activeSprints[1]>>

\* JiraService.getIssue after the request was answered: <<response.data>>,
\* or <<>> for null (status 404 and every other error alike).
JiraGetIssueResult(answer) ==
    IF answer.kind = "found" THEN <<answer.issue>> ELSE <<>>

\* LinearService.getActiveCycle after the request was answered: the
\* activeCycle of the answer as it is, or <<>> for null.
getActiveCycleResult(answer) ==
    IF answer.kind = "ok" THEN answer.cycle ELSE <<>>

\* The times of new Date() in the calls of convertToGenericIssue that one
\* map makes, one after the other.
ClockReadings(n) ==
    { nows \in [1..n -> Times] : \A i, j \in 1..n : i <= j => nows[i] <= nows[j] }

\* LinearService.searchIssues after the request was answered: the nodes
\* converted, whatever their team, or the empty list.
searchIssuesResult(answer, nows) ==
    IF answer.kind = "ok"
    THEN [i \in 1..Len(answer.nodes) |->
             LinearConvertToGenericIssue(answer.nodes[i], nows[i])]
    ELSE <<>>

InitTrackerMethods ==
    /\ pc = "idle"
    /\ config = NoConfig
    /\ commits = <<>>
    /\ parsedCommits = <<>>
    /\ issueIds = <<>>
    /\ trackerService \in { <<a>> : a \in Adapters }
    /\ slackService = FALSE
    /\ inflight = <<>>
    /\ reqIdx = 0
    /\ acc = <<>>
    /\ responses = <<>>
    /\ issues = <<>>
    /\ filteredIssues = <<>>
    /\ notifications = <<>>
    /\ slackTarget = <<>>
    /\ pmEmailReads = <<>>
    /\ outputs = NoOutputs
    /\ failures = <<>>
    /\ calls = <<>>
    /\ slackAnswers = <<>>
    /\ args = NoCall
    /\ result = <<>>
    /\ lastIndex = 0
    /\ history = <<>>

trackerIdleVars == << config, commits, parsedCommits, issueIds, trackerService,
                      slackService, reqIdx, acc, issues, filteredIssues,
                      notifications, slackTarget, pmEmailReads, outputs,
                      failures, slackAnswers, patternVars >>

\* getActiveSprint up to its await: without a board id it returns null at
\* once, else the sprint request is started.
JiraGetActiveSprint ==
    /\ pc = "idle"
    /\ trackerService[1].kind = "jira"
    /\ Len(calls) < MaxTrackerCalls
    /\ \E boardId \in BoardIds :
         /\ args' = [fn |-> "getActiveSprint", boardId |-> boardId]
         /\ IF boardId = 0
            THEN /\ result' = <<[threw |-> FALSE, value |-> <<>>]>>
                 /\ pc' = "idle"
                 /\ UNCHANGED << calls, inflight >>
            ELSE /\ calls' = Append(calls, Call("jira.boardSprint",
                                                <<boardId, "active", 1>>))
                 /\ inflight' = <<Call("jira.boardSprint", <<boardId, "active", 1>>)>>
                 /\ result' = <<>>
                 /\ pc' = "awaitSprint"
    /\ UNCHANGED << trackerIdleVars, responses >>

\* The sprint request is answered: getActiveSprint returns.
JiraGetActiveSprintResponse ==
    /\ pc = "awaitSprint"
    /\ \E answer \in JiraSprintAnswers :
         /\ responses' = Append(responses, answer)
         /\ result' = <<[threw |-> FALSE, value |-> getActiveSprintResult(answer)]>>
    /\ inflight' = <<>>
    /\ pc' = "idle"
    /\ UNCHANGED << trackerIdleVars, calls, args >>

\* JiraService.getIssue up to its await: the issue request is started.
JiraGetIssue ==
    /\ pc = "idle"
    /\ trackerService[1].kind = "jira"
    /\ Len(calls) < MaxTrackerCalls
    /\ \E ticketId \in TicketIds :
         /\ args' = [fn |-> "getIssue", ticketId |-> ticketId]
         /\ calls' = Append(calls, Call("jira.issue", <<ticketId>>))
         /\ inflight' = <<Call("jira.issue", <<ticketId>>)>>
    /\ result' = <<>>
    /\ pc' = "awaitIssue"
    /\ UNCHANGED << trackerIdleVars, responses >>

\* The issue request is answered: getIssue returns.
JiraGetIssueResponse ==
    /\ pc = "awaitIssue"
    /\ \E answer \in JiraIssueAnswers(args.ticketId) :
         /\ responses' = Append(responses, answer)
         /\ result' = <<[threw |-> FALSE, value |-> JiraGetIssueResult(answer)]>>
    /\ inflight' = <<>>
    /\ pc' = "idle"
    /\ UNCHANGED << trackerIdleVars, calls, args >>

\* getActiveCycle up to its await: the GetActiveCycle query is started.
LinearGetActiveCycle ==
    /\ pc = "idle"
    /\ trackerService[1].kind = "linear"
    /\ Len(calls) < MaxTrackerCalls
    /\ \E teamId \in TeamIds :
         /\ args' = [fn |-> "getActiveCycle", teamId |-> teamId]
         /\ calls' = Append(calls, Call("linear.activeCycle", <<teamId>>))
         /\ inflight' = <<Call("linear.activeCycle", <<teamId>>)>>
    /\ result' = <<>>
    /\ pc' = "awaitCycle"
    /\ UNCHANGED << trackerIdleVars, responses >>

\* The query is answered: getActiveCycle returns.
LinearGetActiveCycleResponse ==
    /\ pc = "awaitCycle"
    /\ \E answer \in LinearCycleAnswers :
         /\ responses' = Append(responses, answer)
         /\ result' = <<[threw |-> FALSE, value |-> getActiveCycleResult(answer)]>>
    /\ inflight' = <<>>
    /\ pc' = "idle"
    /\ UNCHANGED << trackerIdleVars, calls, args >>

\* searchIssues up to its await: an empty identifier list returns at once,
\* else one SearchIssues query is started for all identifiers, with the
\* team key of the adapter (<<>>: no team filter) and first: 100.
LinearSearchIssues ==
    /\ pc = "idle"
    /\ trackerService[1].kind = "linear"
    /\ Len(calls) < MaxTrackerCalls
    /\ \E identifiers \in IdLists :
         /\ args' = [fn |-> "searchIssues", identifiers |-> identifiers]
         /\ IF Len(identifiers) = 0
            THEN /\ result' = <<[threw |-> FALSE, value |-> <<>>]>>
                 /\ pc' = "idle"
                 /\ UNCHANGED << calls, inflight >>
            ELSE /\ calls' = Append(calls,
                        Call("linear.search",
                             <<identifiers, trackerService[1].teamKey, 100>>))
                 /\ inflight' = <<Call("linear.search",
                                       <<identifiers, trackerService[1].teamKey, 100>>)>>
                 /\ result' = <<>>
                 /\ pc' = "awaitSearch"
    /\ UNCHANGED << trackerIdleVars, responses >>

\* The query is answered: searchIssues returns.
LinearSearchIssuesResponse ==
    /\ pc = "awaitSearch"
    /\ \E answer \in LinearSearchAnswers(args.identifiers) :
         \E nows \in ClockReadings(Len(answer.nodes)) :
           /\ responses' = Append(responses, answer)
           /\ result' = <<[threw |-> FALSE, value |-> searchIssuesResult(answer, nows)]>>
    /\ inflight' = <<>>
    /\ pc' = "idle"
    /\ UNCHANGED << trackerIdleVars, calls, args >>

NextTrackerMethods ==
    \/ JiraGetActiveSprint
    \/ JiraGetActiveSprintResponse
    \/ JiraGetIssue
    \/ JiraGetIssueResponse
    \/ LinearGetActiveCycle
    \/ LinearGetActiveCycleResponse
    \/ LinearSearchIssues
    \/ LinearSearchIssuesResponse

SpecTrackerMethods == InitTrackerMethods /\ [][NextTrackerMethods]_vars

\* ------------------------------------------------------------------------
\* SlackService on its own: the methods run does not call
\* ------------------------------------------------------------------------

\* Most requests a SlackService is asked to make.
MaxSlackCalls == 2

\* conversations.info
AccessAnswers == {"ok", "not_ok", "error"}

\* What sendSimpleMessage returns (threw = FALSE, the ts of the response)
\* or throws (threw = TRUE, the message of the error): the error of a
\* response that is not ok, or the error of the request as it is.
sendSimpleMessageResult(answer) ==
    IF answer = "not_ok"
    THEN [threw |-> TRUE, value |-> <<"Failed to send Slack message">>]
    ELSE IF answer = "platform_error"
    THEN [threw |-> TRUE, value |-> <<"An API error occurred: channel_not_found">>]
    ELSE IF answer = "other_error"
    THEN [threw |-> TRUE, value |-> <<"A request error occurred">>]
    ELSE [threw |-> FALSE, value |-> <<sendNotificationTs(answer)>>]

\* What validateAccess returns: response.ok, or false when the request
\* fails.
validateAccessResult(answer) == answer = "ok"

InitSlackService ==
    /\ pc = "idle"
    /\ config = NoConfig
    /\ commits = <<>>
    /\ parsedCommits = <<>>
    /\ issueIds = <<>>
    /\ trackerService = <<>>
    /\ slackService = TRUE
    /\ inflight = <<>>
    /\ reqIdx = 0
    /\ acc = <<>>
    /\ responses = <<>>
    /\ issues = <<>>
    /\ filteredIssues = <<>>
    /\ notifications = <<>>
    /\ slackTarget = <<>>
    /\ pmEmailReads = <<>>
    /\ outputs = NoOutputs
    /\ failures = <<>>
    /\ calls = <<>>
    /\ slackAnswers = <<>>
    /\ args = NoCall
    /\ result = <<>>
    /\ lastIndex = 0
    /\ history = <<>>

slackIdleVars == << config, commits, parsedCommits, issueIds, trackerService,
                    slackService, reqIdx, acc, responses, issues,
                    filteredIssues, notifications, slackTarget, pmEmailReads,
                    outputs, failures, patternVars >>

\* sendSimpleMessage up to its await: chat.postMessage is started.
SendSimpleMessage ==
    /\ pc = "idle"
    /\ Len(calls) < MaxSlackCalls
    /\ \E channel \in {"C_DEFAULT", "U_PM"}, text \in {"deployed", ""} :
         /\ args' = [fn |-> "sendSimpleMessage", channel |-> channel, text |-> text]
         /\ calls' = Append(calls, Call("slack.postMessage", <<channel, text>>))
         /\ inflight' = <<Call("slack.postMessage", <<channel, text>>)>>
    /\ result' = <<>>
    /\ pc' = "awaitSimpleMessage"
    /\ UNCHANGED << slackIdleVars, slackAnswers >>

\* chat.postMessage is answered: sendSimpleMessage returns or throws.
SendSimpleMessageResponse ==
    /\ pc = "awaitSimpleMessage"
    /\ \E answer \in SendAnswers :
         /\ slackAnswers' = Append(slackAnswers, answer)
         /\ result' = <<sendSimpleMessageResult(answer)>>
    /\ inflight' = <<>>
    /\ pc' = "idle"
    /\ UNCHANGED << slackIdleVars, calls, args >>

\* validateAccess up to its await: conversations.info is started.
ValidateAccess ==
    /\ pc = "idle"
    /\ Len(calls) < MaxSlackCalls
    /\ \E channel \in {"C_DEFAULT", "U_PM"} :
         /\ args' = [fn |-> "validateAccess", channel |-> channel]
         /\ calls' = Append(calls, Call("slack.conversationsInfo", <<channel>>))
         /\ inflight' = <<Call("slack.conversationsInfo", <<channel>>)>>
    /\ result' = <<>>
    /\ pc' = "awaitAccess"
    /\ UNCHANGED << slackIdleVars, slackAnswers >>

\* conversations.info is answered: validateAccess returns.
ValidateAccessResponse ==
    /\ pc = "awaitAccess"
    /\ \E answer \in AccessAnswers :
         /\ slackAnswers' = Append(slackAnswers, answer)
         /\ result' = <<[threw |-> FALSE, value |-> <<validateAccessResult(answer)>>]>>
    /\ inflight' = <<>>
    /\ pc' = "idle"
    /\ UNCHANGED << slackIdleVars, calls, args >>

NextSlackService ==
    \/ SendSimpleMessage
    \/ SendSimpleMessageResponse
    \/ ValidateAccess
    \/ ValidateAccessResponse

SpecSlackService == InitSlackService /\ [][NextSlackService]_vars

\* ------------------------------------------------------------------------
\* Vocabulary of the properties
\* ------------------------------------------------------------------------

Terminal == pc \in {"exit1", "exit2", "exit3", "exit6", "notified", "failed"}

ConfigLoaded == config # NoConfig

IsSend(c) == c.api = "slack.postMessage"
IsLookup(c) == c.api = "slack.lookupByEmail"
IsTrackerRequest(c) == c.api \in {"jira.search", "linear.issue"}

Sends == SelectSeq(calls, IsSend)
Lookups == SelectSeq(calls, IsLookup)

\* The grouping key in force: jiraProjectKey for jira, linearTeamKey for linear.
ActiveGroupingKey ==
    IF config.issueTracker = "jira" THEN config.jiraProjectKey
    ELSE config.linearTeamKey

\* The mapping holds an entry for the grouping key in force.
HasMappingEntry ==
    /\ ActiveGroupingKey # <<>>
    /\ HasOwnProperty(config.pmMapping, ActiveGroupingKey)

MappingEntry == GetProperty(config.pmMapping, ActiveGroupingKey)

\* An identifier is inside the scope of the grouping key.
InScope(id) ==
    \/ ActiveGroupingKey = <<>>
    \/ StartsWith(id, ActiveGroupingKey \o <<"-">>)

\* The identifiers of the commits that are inside the scope.
ScopedIdentifiers ==
    { id \in UNION { { extractTicketIds(commits[i].message)[j] :
                         j \in 1..Len(extractTicketIds(commits[i].message)) } :
                     i \in 1..Len(commits) } : InScope(id) }

\* ------------------------------------------------------------------------
\* C1
\* ------------------------------------------------------------------------

\* C1 as claimed: once a destination is chosen, if the mapping holds any
\* entry for the grouping key in force, the destination is that entry and no
\* lookup by email was made.
C1_AnyEntryWins ==
    (slackTarget # <<>> /\ HasMappingEntry)
        => (slackTarget[1] = MappingEntry /\ Len(Lookups) = 0)

\* C1 (amended): once a destination is chosen, if the mapping holds a
\* non-empty entry for the grouping key in force, the destination is that
\* entry, whatever the surviving issues and their owner emails are, and no
\* lookup by email was made.
C1_MappingWins ==
    (slackTarget # <<>> /\ HasMappingEntry /\ MappingEntry # "")
        => (slackTarget[1] = MappingEntry /\ Len(Lookups) = 0)

\* A destination was taken from the mapping although the first surviving
\* issue has an owner email that Slack would resolve to someone else.
C1_Witness ==
    /\ slackTarget # <<>>
    /\ HasMappingEntry
    /\ MappingEntry # ""
    /\ Len(filteredIssues) >= 2
    /\ Truthy(filteredIssues[1].pmEmail)
    /\ SlackUserOf(filteredIssues[1].pmEmail) # MappingEntry
    /\ slackTarget[1] = MappingEntry

\* ------------------------------------------------------------------------
\* C2
\* ------------------------------------------------------------------------

NoMappingApplies == ~(HasMappingEntry /\ MappingEntry # "")

\* resolveSlackTarget was entered.
ResolveEntered ==
    \/ pmEmailReads # <<>>
    \/ Len(Sends) > 0
    \/ pc \in {"awaitLookup", "send", "awaitSend", "notified"}

\* C2: when no mapping entry applies, resolveSlackTarget asks the first
\* surviving issue, and no other, for its owner email; with an email,
\* exactly that email is looked up, and once the lookup is answered the
\* destination is the user found, or the default when the lookup finds
\* nothing or fails; without an email no lookup is made and the destination
\* is the default. The resolution never ends the run: until the send is
\* started the run has not failed and stands in the lookup or before the
\* send.
C2_OwnerThenDefault ==
    (ConfigLoaded /\ ResolveEntered /\ NoMappingApplies) =>
        LET email == filteredIssues[1].pmEmail
        IN  /\ pmEmailReads = <<1>>
            /\ IF email # Null /\ email # ""
               THEN /\ Lookups = <<Call("slack.lookupByEmail", <<email>>)>>
                    /\ IF pc = "awaitLookup"
                       THEN /\ slackAnswers = <<>>
                            /\ slackTarget = <<>>
                       ELSE /\ Len(slackAnswers) >= 1
                            /\ slackTarget =
                                 << IF slackAnswers[1] = "found"
                                    THEN SlackUserOf(email)
                                    ELSE config.slackChannelOrUser >>
               ELSE /\ Lookups = <<>>
                    /\ pc # "awaitLookup"
                    /\ slackTarget = <<config.slackChannelOrUser>>
            /\ Len(Sends) = 0 =>
                  /\ pc \in {"awaitLookup", "send"}
                  /\ failures = <<>>
            /\ Len(Sends) > 0 => pc \in {"awaitSend", "notified", "failed"}

\* The lookup for the first issue failed, a later issue has another owner,
\* and the run went on: it notified the default destination.
C2_Witness ==
    /\ pc = "notified"
    /\ NoMappingApplies
    /\ Len(filteredIssues) >= 2
    /\ Truthy(filteredIssues[2].pmEmail)
    /\ filteredIssues[2].pmEmail # filteredIssues[1].pmEmail
    /\ Lookups = <<Call("slack.lookupByEmail", <<filteredIssues[1].pmEmail>>)>>
    /\ slackAnswers[1] = "error"
    /\ slackTarget = <<config.slackChannelOrUser>>
    /\ failures = <<>>

\* ------------------------------------------------------------------------
\* C3
\* ------------------------------------------------------------------------

\* C3: the send is started at most once in a run, for one destination and
\* with all surviving issues at once; a finished run has sent if and only if
\* it had surviving issues.
C3_OneSend ==
    /\ Len(Sends) <= 1
    /\ Len(Sends) = 1 =>
          /\ Len(slackTarget) = 1
          /\ Sends[1].arg = <<slackTarget[1], Len(filteredIssues),
                               config.environment>>
    /\ Terminal => (Len(Sends) = 1 <=> Len(filteredIssues) > 0)

\* A run that notified about several tickets with one message.
C3_Witness ==
    /\ pc = "notified"
    /\ Len(filteredIssues) >= 2
    /\ Len(Sends) = 1

\* ------------------------------------------------------------------------
\* C4
\* ------------------------------------------------------------------------

\* An issue passes steps 4 and 5.
Survives(issue) ==
    /\ config.onlyActiveSprint => isInActiveSprint(trackerService[1], issue)
    /\ Len(config.ticketStatusFilter) > 0 =>
          \E j \in 1..Len(config.ticketStatusFilter) :
              config.ticketStatusFilter[j] = issue.status

\* C4: once the filters ran, the surviving issues are exactly the fetched
\* issues that pass, in order; when issues were fetched and none passes, the
\* run ends with tickets_notified = 0, no send and no failure.
C4_Filtering ==
    (ConfigLoaded /\ trackerService # <<>> /\ pc # "haveIssues") =>
        /\ filteredIssues = SelectSeq(issues, Survives)
        /\ (Len(issues) > 0 /\ Len(SelectSeq(issues, Survives)) = 0) =>
              /\ pc = "exit6"
              /\ outputs.tickets_notified = <<0>>
              /\ Len(Sends) = 0
              /\ failures = <<>>

\* Issues were fetched, the filters dropped some but not all of them.
C4_Witness ==
    /\ pc = "resolve"
    /\ config.onlyActiveSprint
    /\ Len(config.ticketStatusFilter) > 0
    /\ Len(issues) >= 2
    /\ Len(filteredIssues) = 1

\* ------------------------------------------------------------------------
\* C5
\* ------------------------------------------------------------------------

\* The run has read the commits and is past the extraction.
PastExtraction ==
    /\ ConfigLoaded
    /\ pc \notin {"start", "getCommitInfo", "parse"}

\* C5: a run whose commit list is empty, or whose commits hold no identifier
\* inside the scope of the grouping key, ends at once with tickets_found = 0
\* and tickets_notified = 0, with no adapter constructed, no network request
\* started and no failure reported.
C5_EarlyExit ==
    (PastExtraction /\ (Len(commits) = 0 \/ ScopedIdentifiers = {})) =>
        /\ pc = IF Len(commits) = 0 THEN "exit1" ELSE "exit2"
        /\ outputs.tickets_found = <<0>>
        /\ outputs.tickets_notified = <<0>>
        /\ outputs.slack_message_ts = <<>>
        /\ trackerService = <<>>
        /\ ~slackService
        /\ calls = <<>>
        /\ failures = <<>>

\* The commits hold identifiers, but none inside the scope, and the run ended.
C5_Witness ==
    /\ pc = "exit2"
    /\ ActiveGroupingKey # <<>>
    /\ \E i \in 1..Len(commits) : Len(extractTicketIds(commits[i].message)) > 0
    /\ ScopedIdentifiers = {}

\* ------------------------------------------------------------------------
\* C6
\* ------------------------------------------------------------------------

\* C6: a finished run that constructed the adapter and got no issue from
\* getIssues ended at step 3: tickets_notified = 0, tickets_found is the
\* number of distinct identifiers in scope, nothing was sent and no failure
\* was reported.
C6_EmptyFetchExit ==
    (Terminal /\ trackerService # <<>> /\ Len(issues) = 0) =>
        /\ pc = "exit3"
        /\ outputs.tickets_notified = <<0>>
        /\ outputs.tickets_found = <<Cardinality(ScopedIdentifiers)>>
        /\ Cardinality(ScopedIdentifiers) > 0
        /\ Len(Sends) = 0
        /\ failures = <<>>

\* Several identifiers were requested, the fetch gave nothing, the run ended.
C6_Witness ==
    /\ pc = "exit3"
    /\ Len(issueIds) >= 2
    /\ \E i \in 1..Len(calls) : IsTrackerRequest(calls[i])
    /\ outputs.tickets_found = <<Len(issueIds)>>

\* ------------------------------------------------------------------------
\* C7
\* ------------------------------------------------------------------------

\* C7: no output is set twice; a run that ends without failure has set
\* tickets_found and tickets_notified once each; a run that sent reports the
\* number of issues handed to the sender and the number of distinct
\* identifiers in scope; the message handle is set only after a send that
\* succeeded and returned a handle.
C7_Report ==
    /\ Len(outputs.tickets_found) <= 1
    /\ Len(outputs.tickets_notified) <= 1
    /\ Len(outputs.slack_message_ts) <= 1
    /\ pc \in {"exit1", "exit2", "exit3", "exit6", "notified"} =>
          /\ Len(outputs.tickets_found) = 1
          /\ Len(outputs.tickets_notified) = 1
    /\ pc = "notified" =>
          /\ outputs.tickets_notified = <<Len(filteredIssues)>>
          /\ outputs.tickets_notified = <<Sends[1].arg[2]>>
          /\ outputs.tickets_found = <<Cardinality(ScopedIdentifiers)>>
    /\ Len(outputs.slack_message_ts) = 1 =>
          /\ pc = "notified"
          /\ slackAnswers[Len(slackAnswers)] = "ok"

\* A run notified about fewer issues than identifiers were found and set
\* the handle.
C7_Witness ==
    /\ pc = "notified"
    /\ Len(outputs.slack_message_ts) = 1
    /\ Len(issueIds) >= 2
    /\ Len(filteredIssues) < Len(issueIds)

\* ------------------------------------------------------------------------
\* C8
\* ------------------------------------------------------------------------

AdapterKind == trackerService[1].kind

\* The identifiers whose Linear request was rejected at the transport layer.
FailedIds ==
    { issueIds[i] : i \in { j \in 1..Len(responses) : responses[j].kind = "transport" } }

\* C8: getIssues never lets an error out; for an empty identifier list it
\* returns the empty list without a request; after a failed request the Jira
\* adapter returns the empty list and the Linear adapter a list without the
\* identifiers that failed.
C8_GetIssuesNeverThrows ==
    /\ pc # "failed"
    /\ failures = <<>>
    /\ (pc = "haveIssues" /\ Len(issueIds) = 0) => (issues = <<>> /\ calls = <<>>)
    /\ (pc = "fetched" /\ AdapterKind = "jira" /\ responses[1].kind # "ok") =>
          acc = <<>>
    /\ (pc = "fetched" /\ AdapterKind = "linear") =>
          \A i \in 1..Len(acc) : acc[i].key \notin FailedIds

\* The Linear adapter finished although one request failed, and kept the
\* issue of another identifier.
C8_Witness ==
    /\ pc = "fetched"
    /\ AdapterKind = "linear"
    /\ FailedIds # {}
    /\ Len(acc) > 0

\* ------------------------------------------------------------------------
\* C9
\* ------------------------------------------------------------------------

\* The answer gives an issue the adapter is to return.
Returnable(answer) ==
    /\ answer.kind = "found"
    /\ trackerService[1].teamKey # <<>> => answer.issue.team = trackerService[1].teamKey

\* C9: at every point of LinearService.getIssues the issues collected are
\* those of the answers so far that found an issue of the configured team
\* (of any team when none is configured), in request order.
C9_LinearPerIdentifier ==
    (pc \in {"fetching", "awaitLinear", "fetched"} /\ AdapterKind = "linear") =>
        LET good == SelectSeq(responses, Returnable)
        IN  /\ Len(acc) = Len(good)
            /\ \A i \in 1..Len(acc) :
                  /\ acc[i].key = good[i].issue.identifier
                  /\ acc[i].status = good[i].issue.status
            /\ Len(responses) = reqIdx
            /\ \A i \in 1..Len(responses) :
                  responses[i].kind = "found" =>
                      responses[i].issue.identifier = issueIds[i]

\* The first identifier had a bad outcome, the second was found in the
\* configured team and is returned.
C9_Witness ==
    /\ pc = "fetched"
    /\ AdapterKind = "linear"
    /\ trackerService[1].teamKey # <<>>
    /\ Len(responses) = 2
    /\ ~Returnable(responses[1])
    /\ Returnable(responses[2])
    /\ Len(acc) = 1
    /\ acc[1].key = issueIds[2]

\* ------------------------------------------------------------------------
\* C10
\* ------------------------------------------------------------------------

\* One of the four REST fields is absent.
JiraFieldMissing ==
    \/ config.jiraBaseUrl = <<>>
    \/ config.jiraEmail = <<>>
    \/ config.jiraApiToken \in {Null, ""}
    \/ config.jiraProjectKey = <<>>

\* The message names a REST field that is absent.
NamesMissingJiraField(msg) ==
    \/ /\ msg = <<"jira_base_url is required when issue_tracker is \"jira\"">>
       /\ config.jiraBaseUrl = <<>>
    \/ /\ msg = <<"jira_email is required when issue_tracker is \"jira\"">>
       /\ config.jiraEmail = <<>>
    \/ /\ msg = <<"jira_api_token is required when issue_tracker is \"jira\"">>
       /\ config.jiraApiToken \in {Null, ""}
    \/ /\ msg = <<"jira_project_key is required when issue_tracker is \"jira\"">>
       /\ config.jiraProjectKey = <<>>

\* C10 as claimed: with the jira variant and one of base URL, email, token
\* or project key absent, a run that calls createIssueTracker gets no
\* adapter and fails with a ConfigurationError naming an absent field.
C10_AllFourRequired ==
    (/\ ConfigLoaded
     /\ config.issueTracker = "jira"
     /\ JiraFieldMissing
     /\ pc \notin {"start", "getCommitInfo", "parse", "createTracker",
                   "exit1", "exit2"}) =>
        /\ pc = "failed"
        /\ trackerService = <<>>
        /\ Len(failures) = 1
        /\ NamesMissingJiraField(failures[1])

\* ------------------------------------------------------------------------
\* C11
\* ------------------------------------------------------------------------

\* A field createIssueTracker requires of the selected variant is absent.
VariantFieldMissing ==
    \/ /\ config.issueTracker = "jira"
       /\ \/ config.jiraBaseUrl = <<>>
          \/ config.jiraEmail = <<>>
          \/ config.jiraApiToken \in {Null, ""}
    \/ /\ config.issueTracker = "linear"
       /\ config.linearApiKey \in {Null, ""}

\* C11 as claimed: a run whose configuration lacks a field the selected
\* variant requires ends with a reported failure, whatever the commit list
\* is (empty, or without identifiers).
C11_FailsFast ==
    (ConfigLoaded /\ VariantFieldMissing /\ Terminal) =>
        (pc = "failed" /\ Len(failures) = 1)

\* ------------------------------------------------------------------------
\* C12
\* ------------------------------------------------------------------------

\* The message of a ConfigurationError of loadConfig: the prefix and the
\* message of the error that was caught.
IsLoadConfigErrorMessage(msg) ==
    /\ Len(msg) >= 2
    /\ msg[1] = "Invalid configuration: "

\* The message names a field of the selected variant that is absent.
NamesMissingVariantField(msg) ==
    \/ /\ config.issueTracker = "jira"
       /\ NamesMissingJiraField(msg)
    \/ /\ config.issueTracker = "linear"
       /\ msg = <<"linear_api_key is required when issue_tracker is \"linear\"">>
       /\ config.linearApiKey \in {Null, ""}

CreateIssueTrackerErrorMessages ==
    { <<"jira_base_url is required when issue_tracker is \"jira\"">>,
      <<"jira_email is required when issue_tracker is \"jira\"">>,
      <<"jira_api_token is required when issue_tracker is \"jira\"">>,
      <<"linear_api_key is required when issue_tracker is \"linear\"">> }

\* The run raised a ConfigurationError, in loadConfig or in createIssueTracker.
ConfigurationErrorRaised ==
    \E i \in 1..Len(failures) :
        \/ IsLoadConfigErrorMessage(failures[i])
        \/ failures[i] \in CreateIssueTrackerErrorMessages

\* C12: no network request is started before the configuration is validated
\* by loadConfig and createIssueTracker; a run that raised a
\* ConfigurationError has failed with exactly one failure report, which
\* carries the message of that error, and has started no tracker request, no
\* lookup by email and no send, before or after the error.
C12_ConfigErrorFatal ==
    /\ trackerService = <<>> => (calls = <<>> /\ inflight = <<>>)
    /\ (failures # <<>> /\ trackerService = <<>>) => ConfigurationErrorRaised
    /\ ConfigurationErrorRaised =>
          /\ pc = "failed"
          /\ Len(failures) = 1
          /\ calls = <<>>
          /\ inflight = <<>>
          /\ trackerService = <<>>
          /\ ~slackService
          /\ IF ConfigLoaded
             THEN NamesMissingVariantField(failures[1])
             ELSE IsLoadConfigErrorMessage(failures[1])

\* createIssueTracker raised the error after identifiers were found.
C12_Witness ==
    /\ pc = "failed"
    /\ ConfigLoaded
    /\ Len(issueIds) >= 2
    /\ outputs.tickets_found = <<Len(issueIds)>>
    /\ failures = << <<"linear_api_key is required when issue_tracker is \"linear\"">> >>

\* ------------------------------------------------------------------------
\* C13
\* ------------------------------------------------------------------------

\* What Slack answered to the send.
SendAnswer == slackAnswers[Len(slackAnswers)]

\* sendNotification threw: the response was not ok, the platform reported an
\* error, or the request failed otherwise.
SendThrew ==
    /\ Len(Sends) = 1
    /\ pc # "awaitSend"
    /\ SendAnswer \in {"not_ok", "platform_error", "other_error"}

\* C13: when sendNotification throws, the run has failed with one failure
\* report that carries the message of the cause, tickets_notified and
\* slack_message_ts are not set, and tickets_found keeps the number of
\* identifiers set before the fetch.
C13_SendFailureFatal ==
    SendThrew =>
        /\ pc = "failed"
        /\ Len(failures) = 1
        /\ failures[1] =
             IF SendAnswer = "not_ok" THEN <<"Failed to send Slack message">>
             ELSE IF SendAnswer = "platform_error"
             THEN <<"Slack API error: ", "An API error occurred: channel_not_found">>
             ELSE <<"A request error occurred">>
        /\ outputs.tickets_notified = <<>>
        /\ outputs.slack_message_ts = <<>>
        /\ outputs.tickets_found = <<Len(issueIds)>>

\* The platform rejected the message about two surviving issues.
C13_Witness ==
    /\ pc = "failed"
    /\ Len(Sends) = 1
    /\ SendAnswer = "platform_error"
    /\ Len(filteredIssues) = 2
    /\ outputs.tickets_found = <<2>>

\* ------------------------------------------------------------------------
\* C14
\* ------------------------------------------------------------------------

\* The state of the iteration the adapter looks at (sprint for Jira, cycle
\* for Linear), or "none".
IterationState(svc, issue) ==
    IF svc.kind = "jira"
    THEN IF issue.sprint = <<>> THEN "none" ELSE issue.sprint[1].state
    ELSE IF issue.cycle = <<>> THEN "none" ELSE issue.cycle[1].state

\* C14: isInActiveSprint returns true exactly for an issue that has a sprint
\* in state active (Jira adapter) or a cycle in state started (Linear
\* adapter), and false for future, closed, unstarted, completed and for an
\* issue without iteration.
C14_ActiveIffOpen ==
    Returned("isInActiveSprint") =>
        LET st == IterationState(args.service, args.issue)
        IN  /\ st \in {"none", "active", "future", "closed",
                       "started", "unstarted", "completed"}
            /\ result[1] = TRUE <=>
                 \/ args.service.kind = "jira" /\ st = "active"
                 \/ args.service.kind = "linear" /\ st = "started"
            /\ st \in {"none", "future", "closed", "unstarted", "completed"}
                 => result[1] = FALSE

\* The Jira adapter was asked about an issue of a future sprint.
C14_Witness ==
    /\ Returned("isInActiveSprint")
    /\ args.service.kind = "jira"
    /\ IterationState(args.service, args.issue) = "future"
    /\ result = <<FALSE>>

\* ------------------------------------------------------------------------
\* C15
\* ------------------------------------------------------------------------

\* The k-th smallest element of a set of positions.
KthOf(S, k) == CHOOSE i \in S : Cardinality({ j \in S : j < i }) = k - 1

\* The sub-list of xs at the positions S, in order.
Pick(xs, S) == [k \in 1..Cardinality(S) |-> xs[KthOf(S, k)]]

\* C15: filterByStatus returns its input when allowedStatuses is absent or
\* empty; otherwise it returns the sub-list of the issues whose status is
\* one of the allowed values, character for character, in input order.
C15_FilterByStatus ==
    Returned("filterByStatus") =>
        LET in      == args.issues
            allowed == { args.allowedStatuses[j] :
                           j \in 1..Len(args.allowedStatuses) }
            keep    == { i \in 1..Len(in) : in[i].status \in allowed }
        IN  /\ args.allowedStatuses = <<>> => result[1] = in
            /\ args.allowedStatuses # <<>> => result[1] = Pick(in, keep)
            /\ \E S \in SUBSET (1..Len(in)) : result[1] = Pick(in, S)

\* Done is allowed: the issue with status done is dropped, the one with
\* status Done behind it is kept.
C15_Witness ==
    /\ Returned("filterByStatus")
    /\ args.allowedStatuses = <<"Done">>
    /\ Len(args.issues) = 2
    /\ args.issues[1].status = "done"
    /\ args.issues[2].status = "Done"
    /\ result = << <<args.issues[2]>> >>

\* ------------------------------------------------------------------------
\* C16
\* ------------------------------------------------------------------------

\* The Issue the Linear adapter builds for an issue of the cycle under call.
IssueOfCycle ==
    LinearConvertToGenericIssue(
        LinearIssueOf(AB1, [status |-> "Done", cycle |-> <<args.cycle>>,
                            team |-> KeyAB]),
        args.now)

\* C16: getCycleState gives completed when completedAt is set, whatever the
\* timestamps; else unstarted when now < startsAt; else started when
\* startsAt <= now <= endsAt, both ends included; else completed. The issue
\* of the cycle is in the active cycle only in the started case.
C16_CycleState ==
    Returned("getCycleState") =>
        LET c   == args.cycle
            now == args.now
        IN  /\ c.completedAt # <<>> => result[1] = "completed"
            /\ (c.completedAt = <<>> /\ now < c.startsAt)
                  => result[1] = "unstarted"
            /\ (c.completedAt = <<>> /\ c.startsAt <= now /\ now <= c.endsAt)
                  => result[1] = "started"
            /\ (c.completedAt = <<>> /\ c.startsAt <= now /\ now > c.endsAt)
                  => result[1] = "completed"
            /\ result[1] \in {"completed", "unstarted", "started"}
            /\ LinearIsInActiveSprint(IssueOfCycle) <=> result[1] = "started"

\* The clock stands at endsAt of a cycle that is not completed.
C16_Witness ==
    /\ Returned("getCycleState")
    /\ args.cycle.completedAt = <<>>
    /\ args.cycle.startsAt < args.cycle.endsAt
    /\ args.now = args.cycle.endsAt
    /\ result = <<"started">>

\* ------------------------------------------------------------------------
\* C17
\* ------------------------------------------------------------------------

\* w is a valid identifier: 2 to 10 uppercase letters, a hyphen, one or
\* more digits.
IsIdentifier(w) ==
    \E h \in 3..Min(Len(w) - 1, 11) :
        /\ w[h] = "-"
        /\ \A k \in 1..(h - 1) : w[k] \in Upper
        /\ \A k \in (h + 1)..Len(w) : w[k] \in Digit

\* The places <<i, j>> where a valid identifier stands in msg as a whole
\* word: no word character right before position i or right after j.
Occurrences(msg) ==
    LET starts == { i \in 1..Len(msg) :
                      msg[i] \in Upper /\ ~IsWordAt(msg, i - 1) }
        ends   == { j \in 1..Len(msg) :
                      msg[j] \in Digit /\ ~IsWordAt(msg, j + 1) }
    IN  { o \in starts \X ends :
            o[1] < o[2] /\ IsIdentifier(SubSeq(msg, o[1], o[2])) }

\* The valid identifiers of msg.
ValidIds(msg) == { SubSeq(msg, o[1], o[2]) : o \in Occurrences(msg) }

\* Where id first stands in msg.
FirstAt(msg, id) ==
    LET at == { o[1] : o \in { p \in Occurrences(msg) :
                                 SubSeq(msg, p[1], p[2]) = id } }
    IN  CHOOSE i \in at : \A k \in at : i <= k

\* C17: extractTicketIds returns the valid identifiers that stand in the
\* message as whole words (bare, bracketed or parenthesized), each once
\* however often it occurs, in the order of their first appearance.
C17_ExtractsAll ==
    Returned("extractTicketIds") =>
        LET r == result[1]
            m == args.message
        IN  /\ Len(r) = Cardinality(ValidIds(m))
            /\ { r[k] : k \in 1..Len(r) } = ValidIds(m)
            /\ \A k, l \in 1..Len(r) :
                  k < l => FirstAt(m, r[k]) < FirstAt(m, r[l])

\* "CD-2 [AB-1] CD-2" gave CD-2 and AB-1.
C17_Witness ==
    /\ Returned("extractTicketIds")
    /\ args.message = JoinWords(<<CD2, <<"[">> \o AB1 \o <<"]">>, CD2>>)
    /\ Cardinality(Occurrences(args.message)) = 3
    /\ result = << <<CD2, AB1>> >>

\* ------------------------------------------------------------------------
\* C18
\* ------------------------------------------------------------------------

\* Words without a whole-word match: lowercase prefix, prefix of one
\* letter, prefix of eleven letters, no digits.
NonMatchingWords ==
    { <<"a", "b", "-", "1">>,
      <<"A", "-", "1">>,
      ElevenLetters \o <<"-", "1">>,
      <<"A", "B", "-">> }

\* C18: extractTicketIds returns the empty list for a text in which no
\* valid identifier stands as a whole word, so for a lowercase prefix, a
\* prefix of one letter, a prefix of more than ten letters (no end of it is
\* taken) and a prefix and hyphen without digits.
C18_NoMatchEmpty ==
    Returned("extractTicketIds") =>
        /\ ValidIds(args.message) = {} => result[1] = <<>>
        /\ args.message \in NonMatchingWords => result[1] = <<>>
        /\ \A w1, w2 \in NonMatchingWords :
              args.message = w1 \o <<" ">> \o w2 => result[1] = <<>>

\* A prefix of eleven letters gave nothing.
C18_Witness ==
    /\ Returned("extractTicketIds")
    /\ args.message = ElevenLetters \o <<"-", "1">>
    /\ result = << <<>> >>

\* ------------------------------------------------------------------------
\* C19
\* ------------------------------------------------------------------------

\* id begins with the grouping key and a hyphen.
HasKeyPrefix(id, key) ==
    /\ Len(id) > Len(key)
    /\ \A n \in 1..Len(key) : id[n] = key[n]
    /\ id[Len(key) + 1] = "-"

\* What parseCommits is to keep of the i-th commit.
Kept(i) ==
    LET ex == extractTicketIds(args.commits[i].message)
    IN  Pick(ex, { k \in 1..Len(ex) :
                     args.projectKey = <<>> \/ HasKeyPrefix(ex[k], args.projectKey) })

\* C19: for each commit, parseCommits with a grouping key keeps the
\* extracted identifiers that begin with the key and a hyphen, in extraction
\* order, and no other; without a grouping key it keeps all of them.
C19_KeyScoping ==
    Returned("parseCommits") =>
        LET r == result[1]
        IN  /\ \A k \in 1..Len(r) :
                  /\ r[k].sha \in 1..Len(args.commits)
                  /\ r[k].ticketIds = Kept(r[k].sha)
            /\ \A i \in 1..Len(args.commits) :
                  Kept(i) # <<>> => \E k \in 1..Len(r) : r[k].sha = i
            /\ args.projectKey = <<>> =>
                  \A k \in 1..Len(r) :
                      r[k].ticketIds =
                        extractTicketIds(args.commits[r[k].sha].message)

\* With key AB, "ABC-3 AB-2 AB-1" gave AB-2 and AB-1.
C19_Witness ==
    /\ Returned("parseCommits")
    /\ args.projectKey = KeyAB
    /\ \E k \in 1..Len(result[1]) :
          /\ args.commits[result[1][k].sha].message =
               ABC3 \o <<" ">> \o AB2 \o <<" ">> \o AB1
          /\ result[1][k].ticketIds = <<AB2, AB1>>

\* ------------------------------------------------------------------------
\* C20
\* ------------------------------------------------------------------------

\* The i-th commit holds a valid identifier inside the scope of the key.
HasScopedId(i) ==
    \E id \in ValidIds(args.commits[i].message) :
        args.projectKey = <<>> \/ HasKeyPrefix(id, args.projectKey)

\* C20: parseCommits returns no entry with an empty ticketIds list; it
\* returns one entry for each commit that holds an identifier inside the
\* scope of the grouping key and none for the other commits, in the order of
\* the commits.
C20_NoEmptyEntry ==
    Returned("parseCommits") =>
        LET r == result[1]
        IN  /\ \A k \in 1..Len(r) : Len(r[k].ticketIds) > 0
            /\ { r[k].sha : k \in 1..Len(r) } =
                 { i \in 1..Len(args.commits) : HasScopedId(i) }
            /\ \A k, l \in 1..Len(r) : k < l => r[k].sha < r[l].sha

\* The first commit holds no identifier of the key, the second does: one
\* entry, for the second.
C20_Witness ==
    /\ Returned("parseCommits")
    /\ Len(args.commits) = 2
    /\ args.projectKey = KeyAB
    /\ args.commits[1].message = CD2
    /\ Len(result[1]) = 1
    /\ result[1][1].sha = 2

\* ------------------------------------------------------------------------
\* C21
\* ------------------------------------------------------------------------

\* The places <<k, n>> (commit k, position n) where id is recorded.
RecordedAt(pcs, id) ==
    { p \in UNION { { <<k, n>> : n \in 1..Len(pcs[k].ticketIds) } :
                    k \in 1..Len(pcs) } :
        pcs[p[1]].ticketIds[p[2]] = id }

\* All identifiers recorded in some ParsedCommit.
RecordedIds(pcs) ==
    UNION { { pcs[k].ticketIds[n] : n \in 1..Len(pcs[k].ticketIds) } :
            k \in 1..Len(pcs) }

\* The place p comes before the place q in the commit list.
PlaceBefore(p, q) == p[1] < q[1] \/ (p[1] = q[1] /\ p[2] < q[2])

\* The first place where id is recorded.
FirstRecordedAt(pcs, id) ==
    CHOOSE p \in RecordedAt(pcs, id) :
        \A q \in RecordedAt(pcs, id) : p = q \/ PlaceBefore(p, q)

\* C21: getAllTicketIds returns every identifier recorded in a ParsedCommit
\* once, ordered by first occurrence over the whole commit list; the
\* ParsedCommits keep the identifier in each commit that names it.
C21_AggregateOnce ==
    Returned("getAllTicketIds") =>
        LET r   == result[1]
            pcs == args.parsedCommits
        IN  /\ Len(r) = Cardinality(RecordedIds(pcs))
            /\ { r[k] : k \in 1..Len(r) } = RecordedIds(pcs)
            /\ \A k, l \in 1..Len(r) :
                  k < l => PlaceBefore(FirstRecordedAt(pcs, r[k]),
                                       FirstRecordedAt(pcs, r[l]))

\* AB-1 is recorded in two commits and stands once in the aggregate list,
\* behind an identifier of the first commit only.
C21_Witness ==
    /\ Returned("getAllTicketIds")
    /\ Len(args.parsedCommits) = 2
    /\ Cardinality({ p[1] : p \in RecordedAt(args.parsedCommits, AB1) }) = 2
    /\ Len(result[1]) = Cardinality(RecordedIds(args.parsedCommits))
    /\ Len(result[1]) >= 3

\* ------------------------------------------------------------------------
\* C22
\* ------------------------------------------------------------------------

\* C22: whatever calls of the Extractor came before, a call gives what the
\* first call on the same input gave, and what the function gives on a
\* pattern never used; the shared pattern is left as it was found.
C22_NoHiddenState ==
    /\ lastIndex = 0
    /\ \A i, j \in 1..Len(history) :
          history[i].call = history[j].call => history[i].gave = history[j].gave
    /\ \A i \in 1..Len(history) :
          LET h == history[i]
          IN  IF h.call.fn = "extractTicketIds"
              THEN h.gave = <<extractTicketIds(h.call.message)>>
              ELSE h.gave =
                     <<parseCommits(h.call.commits, h.call.projectKey),
                       getAllTicketIds(parseCommits(h.call.commits,
                                                    h.call.projectKey))>>

\* extractTicketIds was called on "AB-1 CD-2", then parseCommits on other
\* messages, then extractTicketIds on "AB-1 CD-2" again.
C22_Witness ==
    /\ Len(history) = 3
    /\ history[1].call = [fn |-> "extractTicketIds", message |-> MsgTwoProjects]
    /\ history[2].call.fn = "parseCommits"
    /\ history[3].call = history[1].call
    /\ history[3].gave = << <<AB1, CD2>> >>

\* ------------------------------------------------------------------------
\* C23
\* ------------------------------------------------------------------------

\* An email is given: neither absent nor empty.
EmailGiven(e) == e # Null /\ e # ""

\* C23: getPmEmail of a converted Jira issue gives the email of the custom
\* PM field when that is given, else the email of the reporter when that is
\* given, else nothing; the reporter is used only when the custom field
\* gives no email.
C23_JiraOwner ==
    Returned("getPmEmail") =>
        LET cf  == args.jiraIssue.customfield_pm
            rep == args.jiraIssue.reporter
        IN  /\ EmailGiven(cf) => result[1] = cf
            /\ (~EmailGiven(cf) /\ EmailGiven(rep)) => result[1] = rep
            /\ (~EmailGiven(cf) /\ ~EmailGiven(rep)) => result[1] = Null
            /\ (result[1] = rep /\ rep # cf /\ EmailGiven(rep)) => ~EmailGiven(cf)

\* Both the custom field and the reporter give an email: the custom field wins.
C23_Witness ==
    /\ Returned("getPmEmail")
    /\ args.jiraIssue.customfield_pm = "pm@corp.example"
    /\ args.jiraIssue.reporter = "rep@corp.example"
    /\ result = <<"pm@corp.example">>

\* ------------------------------------------------------------------------
\* C24
\* ------------------------------------------------------------------------

\* C24: in a run with the linear variant every issue the adapter produced
\* has no owner email, no lookup by email is made, and a destination that
\* is chosen is the mapping entry for the team key or the default.
C24_LinearNoOwner ==
    (ConfigLoaded /\ config.issueTracker = "linear") =>
        /\ \A i \in 1..Len(acc) : acc[i].pmEmail = Null
        /\ \A i \in 1..Len(issues) : issues[i].pmEmail = Null
        /\ \A i \in 1..Len(filteredIssues) : filteredIssues[i].pmEmail = Null
        /\ Len(Lookups) = 0
        /\ slackTarget # <<>> =>
              \/ slackTarget[1] = config.slackChannelOrUser
              \/ HasMappingEntry /\ slackTarget[1] = MappingEntry

\* A linear run asked the first surviving issue for its owner, got none and
\* notified the default destination.
C24_Witness ==
    /\ pc = "notified"
    /\ config.issueTracker = "linear"
    /\ pmEmailReads = <<1>>
    /\ Len(filteredIssues) >= 1
    /\ slackTarget = <<config.slackChannelOrUser>>

\* ------------------------------------------------------------------------
\* C25
\* ------------------------------------------------------------------------

\* The tracker requests started so far, in order.
TrackerCalls == SelectSeq(calls, IsTrackerRequest)

\* C25: LinearService.getIssues asks for the identifiers one after the
\* other, in the order of the list: the request for identifier N + 1 is
\* started only when the N requests before it were answered, and at no
\* point are two tracker requests in flight.
C25_LinearSequential ==
    /\ Len(inflight) <= 1
    /\ (trackerService # <<>> /\ AdapterKind = "linear") =>
          /\ Len(TrackerCalls) <= Len(issueIds)
          /\ \A i \in 1..Len(TrackerCalls) :
                TrackerCalls[i] = Call("linear.issue", <<issueIds[i]>>)
          /\ pc = "awaitLinear" =>
                /\ inflight = <<TrackerCalls[Len(TrackerCalls)]>>
                /\ Len(responses) = Len(TrackerCalls) - 1
          /\ pc = "fetching" =>
                /\ inflight = <<>>
                /\ Len(responses) = Len(TrackerCalls)

\* The request for the second identifier is in flight after the request
\* for the first one failed.
C25_Witness ==
    /\ pc = "awaitLinear"
    /\ AdapterKind = "linear"
    /\ Len(TrackerCalls) = 2
    /\ Len(responses) = 1
    /\ responses[1].kind = "transport"
    /\ inflight = <<Call("linear.issue", <<issueIds[2]>>)>>

\* ------------------------------------------------------------------------
\* C26
\* ------------------------------------------------------------------------

\* C26: no tracker request is made twice. The Jira adapter posts exactly
\* one search request, for all identifiers and capped at 100 results, when
\* the list is not empty, whatever the answer is; the Linear adapter makes
\* at most one request for each identifier.
C26_NoRetry ==
    trackerService # <<>> =>
        /\ AdapterKind = "jira" =>
              /\ Len(TrackerCalls) <= 1
              /\ \A i \in 1..Len(TrackerCalls) :
                    TrackerCalls[i] = Call("jira.search", <<issueIds, 100>>)
              /\ (pc \in {"awaitJira", "fetched", "haveIssues"} /\ Len(issueIds) > 0)
                    => Len(TrackerCalls) = 1
              /\ Len(issueIds) = 0 => TrackerCalls = <<>>
        /\ AdapterKind = "linear" =>
              /\ Len(TrackerCalls) <= Len(issueIds)
              /\ \A i, j \in 1..Len(TrackerCalls) :
                    TrackerCalls[i].arg = TrackerCalls[j].arg => i = j

\* The search for two identifiers timed out and getIssues is about to
\* return, with one request made.
C26_Witness ==
    /\ pc = "fetched"
    /\ AdapterKind = "jira"
    /\ Len(issueIds) = 2
    /\ responses[1].kind = "timeout"
    /\ Len(TrackerCalls) = 1

\* ------------------------------------------------------------------------
\* C27
\* ------------------------------------------------------------------------

\* The step of the pipeline run stands at: 1 configuration, 2 extraction,
\* 3 adapter construction, 4 fetch, 5 and 6 the filters, 7 destination,
\* 8 send and report, 9 ended.
StepOf(p) ==
    CASE p = "start" -> 1
      [] p \in {"getCommitInfo", "parse"} -> 2
      [] p = "createTracker" -> 3
      [] p \in {"getIssues", "fetching", "awaitJira", "awaitLinear", "fetched"} -> 4
      [] p = "haveIssues" -> 5
      [] p \in {"resolve", "awaitLookup"} -> 7
      [] p \in {"send", "awaitSend"} -> 8
      [] OTHER -> 9

\* How far the run has come; inside the fetch the requests made so far count.
Progress ==
    LET fetchDone == 6 + 2 * Len(issueIds)
    IN  CASE pc = "start" -> 0
          [] pc = "getCommitInfo" -> 1
          [] pc = "parse" -> 2
          [] pc = "createTracker" -> 3
          [] pc = "getIssues" -> 4
          [] pc = "fetching" -> 5 + 2 * Len(TrackerCalls)
          [] pc \in {"awaitJira", "awaitLinear"} -> 4 + 2 * Len(TrackerCalls)
          [] pc = "fetched" -> fetchDone
          [] pc = "haveIssues" -> fetchDone + 1
          [] pc = "resolve" -> fetchDone + 2
          [] pc = "awaitLookup" -> fetchDone + 3
          [] pc = "send" -> fetchDone + 4
          [] pc = "awaitSend" -> fetchDone + 5
          [] OTHER -> fetchDone + 6

\* A step of run starts before the end, never goes back to an earlier step
\* of the pipeline and never stands again where it stood.
StepForward ==
    /\ ~Terminal
    /\ StepOf(pc') >= StepOf(pc)
    /\ Progress' > Progress

\* What each end of run has done.
RunOutcome ==
    /\ pc \in {"exit1", "exit2", "exit3", "exit6"} =>
          /\ failures = <<>>
          /\ Sends = <<>>
          /\ outputs.tickets_notified = <<0>>
    /\ pc = "notified" =>
          /\ failures = <<>>
          /\ Len(Sends) = 1
          /\ Len(outputs.tickets_notified) = 1
    /\ (pc = "failed") <=> (failures # <<>>)
    /\ Len(failures) <= 1

\* C27: run is a strict sequence of steps: every step goes forward, no step
\* is taken after the end, every run reaches exactly one end (an exit with
\* zero tickets, notified, or failed), and the failure report is made in the
\* failed end only.
C27_LinearPipeline ==
    /\ [][StepForward]_vars
    /\ []RunOutcome
    /\ <>Terminal

\* A run went through the fetch and both filters and ended at the exit for
\* no surviving issue, with no failure reported.
C27_Witness ==
    /\ pc = "exit6"
    /\ Len(TrackerCalls) >= 1
    /\ Len(issues) >= 1
    /\ failures = <<>>
    /\ outputs.tickets_notified = <<0>>

\* ------------------------------------------------------------------------
\* C28
\* ------------------------------------------------------------------------

\* Every issue of the list has no cycle / no sprint.
NoCycleIn(list) == \A i \in 1..Len(list) : list[i].cycle = <<>>
NoSprintIn(list) == \A i \in 1..Len(list) : list[i].sprint = <<>>

\* C28: an issue carries at most one of sprint and cycle: the issues of the
\* Jira adapter have no cycle, the issues of the Linear adapter have no
\* sprint, and no notification record has both a sprint and a cycle.
C28_OneIterationShape ==
    /\ (trackerService # <<>> /\ AdapterKind = "jira") =>
          NoCycleIn(acc) /\ NoCycleIn(issues) /\ NoCycleIn(filteredIssues)
    /\ (trackerService # <<>> /\ AdapterKind = "linear") =>
          NoSprintIn(acc) /\ NoSprintIn(issues) /\ NoSprintIn(filteredIssues)
    /\ \A i \in 1..Len(notifications) :
          ~(notifications[i].sprint # Null /\ notifications[i].cycle # Null)

\* A Jira issue with a sprint was fetched and its record names the sprint
\* and no cycle.
C28_Witness ==
    /\ pc = "notified"
    /\ AdapterKind = "jira"
    /\ filteredIssues[1].sprint # <<>>
    /\ notifications[1].sprint # Null
    /\ notifications[1].cycle = Null

\* ------------------------------------------------------------------------
\* C29
\* ------------------------------------------------------------------------

\* sub holds elements of full, in the order of full.
IsSubList(sub, full) ==
    \E f \in [1..Len(sub) -> 1..Len(full)] :
        /\ \A i \in 1..Len(sub) : full[f[i]] = sub[i]
        /\ \A i, j \in 1..Len(sub) : i < j => f[i] < f[j]

\* Record i is made of surviving issue i.
RecordsProjectSurvivors ==
    /\ Len(notifications) = Len(filteredIssues)
    /\ \A i \in 1..Len(notifications) :
          /\ notifications[i].ticket = filteredIssues[i].key
          /\ notifications[i].status = filteredIssues[i].status
          /\ notifications[i].url = filteredIssues[i].url

\* A step of run after the fetch leaves the fetched issues as they are.
FetchedIssuesKept ==
    (pc \in {"haveIssues", "resolve", "awaitLookup", "send", "awaitSend"}) =>
        (issues' = issues)

\* C29: the notification records are made one for one, in order, of the
\* surviving issues (ticket = key, status, url); the surviving issues are
\* fetched issues in their order and the fetched issues are not changed
\* after the fetch; the owner that is looked up is the owner of the issue
\* the first record was made of.
C29_RecordsFromSurvivors ==
    /\ [](/\ notifications # <<>> => RecordsProjectSurvivors
          /\ IsSubList(filteredIssues, issues)
          /\ \A r \in 1..Len(pmEmailReads) : pmEmailReads[r] = 1
          /\ \A l \in 1..Len(Lookups) :
                /\ Lookups[l].arg = <<filteredIssues[1].pmEmail>>
                /\ notifications[1].ticket = filteredIssues[1].key)
    /\ [][FetchedIssuesKept]_vars

\* Two issues survived, the owner of the first was looked up and the
\* message was sent.
C29_Witness ==
    /\ pc = "notified"
    /\ Len(issues) = 2
    /\ Len(notifications) = 2
    /\ notifications[1].ticket # notifications[2].ticket
    /\ Len(Lookups) = 1
    /\ Lookups[1].arg = <<filteredIssues[1].pmEmail>>

\* ------------------------------------------------------------------------
\* C30
\* ------------------------------------------------------------------------

\* The value an output was set to last.
OutputValue(name) == outputs[name][Len(outputs[name])]

\* C30: in a run with the Linear adapter, once tickets_found and
\* tickets_notified are both set, tickets_notified is at most the number of
\* fetched issues, which is at most tickets_found.
C30_CountOrdering ==
    (/\ ConfigLoaded
     /\ config.issueTracker = "linear"
     /\ outputs.tickets_found # <<>>
     /\ outputs.tickets_notified # <<>>) =>
        /\ OutputValue("tickets_notified") <= Len(issues)
        /\ Len(issues) <= OutputValue("tickets_found")
        /\ OutputValue("tickets_notified") <= OutputValue("tickets_found")

\* Two identifiers were found, both issues were fetched from Linear, and
\* one of them was notified.
C30_Witness ==
    /\ pc = "notified"
    /\ config.issueTracker = "linear"
    /\ outputs.tickets_found = <<2>>
    /\ Len(issues) = 2
    /\ outputs.tickets_notified = <<1>>

====
